---- MODULE Spec2Model ----
(***************************************************************************)
(* State machine of the CRUD API: products (JSON file / memory), invoices  *)
(* (SQLite / memory), users (MySQL / SQLite / memory) and the services on  *)
(* top of them.                                                            *)
(*                                                                         *)
(* Representation:                                                         *)
(*  - a JS string is a sequence of one-character strings, so trim() and    *)
(*    toLowerCase() are computed and not assumed;                          *)
(*  - a JS number holding money is an integer count of half cents (1/200), *)
(*    so 3.50 is 700; toFixed(2) rounds to a whole cent, half up.  Binary  *)
(*    floating point error of Number is not represented;                   *)
(*  - a quantity is an integer count of halves (qtd 2 is 1.0);             *)
(*  - an optional request field is [def, val]; def = FALSE is undefined;   *)
(*  - a thrown Error is its message.                                       *)
(***************************************************************************)
EXTENDS Integers, Sequences, FiniteSets, TLC

VARIABLES
  notasBackend,     \* server.js: "sqlite" | "memory"
  usuariosBackend,  \* server.js: "mysql" | "sqlite" | "memory"
  produtos,         \* product list (file content / ProdutoMemoryRepository.items)
  notasDb,          \* rows of table notas_fiscais, in rowid order
  notasItems,       \* NotaFiscalMemoryRepository.items
  notaIdSeq,        \* sqlite_sequence of notas_fiscais / NotaFiscalMemoryRepository._idSeq
  precosLidos,      \* history: nota id -> prices read by its last successful create/update
  usuariosDb,       \* rows of table usuarios (MySQL or SQLite), in rowid order
  usuariosItems,    \* UsuarioMemoryRepository.items
  usuarioIdSeq,     \* AUTO_INCREMENT of usuarios / UsuarioMemoryRepository._idSeq
  now,              \* the clock read by new Date()
  resultado,        \* outcome of the last service call: [op, erro], erro = "" on success
  boot,             \* server.js bootstrap: its position, locals and the failures it meets
  emVoo,            \* the requests in flight: per slot, the handler suspended at an await
  pedido,           \* the request in the middleware chain: its route, its header, how far it got
  retorno           \* value returned by the last AuthService / UsuarioService call

vars == <<notasBackend, usuariosBackend, produtos, notasDb, notasItems, notaIdSeq,
          precosLidos, usuariosDb, usuariosItems, usuarioIdSeq, now, resultado,
          boot, emVoo, pedido, retorno>>

notaVars == <<notasDb, notasItems, notaIdSeq, precosLidos>>
usuarioVars == <<usuariosDb, usuariosItems, usuarioIdSeq>>
bootVars == <<notasBackend, usuariosBackend, boot>>

\* The controller has the service's answer and responds: the request is done
Atendido == pedido' = [pedido EXCEPT !.fase = "atendido"]

----------------------------------------------------------------------------
(* Bounds *)

MaxNotaId == 2        \* invoices created in one run
MaxProdutos == 11     \* products held at once (the seed has 10)
MaxUsuarioId == 2     \* users created in one run
MaxEmVoo == 2         \* requests in flight at once

----------------------------------------------------------------------------
(* Generic helpers *)

Some(v) == [def |-> TRUE, val |-> v]
NoStr == [def |-> FALSE, val |-> <<>>]
NoSeq == [def |-> FALSE, val |-> <<>>]
NoNum == [def |-> FALSE, val |-> 0]

\* a ?? b
Coalesce(a, b) == IF a.def THEN a.val ELSE b

Range(s) == {s[i] : i \in 1..Len(s)}

Max(S) == CHOOSE m \in S : \A x \in S : x <= m

\* Array.prototype.findIndex: first index satisfying a test, 0 when none
FirstIndex(s, Test(_)) ==
  LET hits == {i \in 1..Len(s) : Test(s[i])} IN
  IF hits = {} THEN 0 ELSE CHOOSE i \in hits : \A j \in hits : i <= j

\* Array.prototype.filter
Filter(s, Test(_)) == SelectSeq(s, Test)

RECURSIVE TrimStart(_)
TrimStart(s) == IF s # <<>> /\ Head(s) = " " THEN TrimStart(Tail(s)) ELSE s

RECURSIVE TrimEnd(_)
TrimEnd(s) ==
  IF s # <<>> /\ s[Len(s)] = " " THEN TrimEnd(SubSeq(s, 1, Len(s) - 1)) ELSE s

\* String.prototype.trim
Trim(s) == TrimEnd(TrimStart(s))

LowerChar(c) ==
  CASE c = "A" -> "a"
    [] c = "B" -> "b"
    [] c = "X" -> "x"
    [] OTHER -> c

\* String.prototype.toLowerCase
ToLowerCase(s) == [i \in 1..Len(s) |-> LowerChar(s[i])]

\* Number(x.toFixed(2)) on a non-negative amount in half cents
ToFixed2(n) == ((n + 1) \div 2) * 2

\* Date.prototype.toISOString: milliseconds since the epoch -> <<seconds, millis>>
ToISOString(ms) == <<ms \div 1000, ms % 1000>>

\* new Date(isoString).getTime()
DateParse(iso) == iso[1] * 1000 + iso[2]

\* src/models/NotaFiscal.js paraIsoDate, applied to an ISO string
paraIsoDate(iso) == ToISOString(DateParse(iso))

----------------------------------------------------------------------------
(* Products *)

Cents(c) == 2 * c

produtosSeed == <<
  [id |-> 1,  nome |-> <<"C", "a">>, preco |-> Cents(350)],
  [id |-> 2,  nome |-> <<"C", "d">>, preco |-> Cents(1890)],
  [id |-> 3,  nome |-> <<"B", "o">>, preco |-> Cents(220)],
  [id |-> 4,  nome |-> <<"L", "a">>, preco |-> Cents(150)],
  [id |-> 5,  nome |-> <<"T", "i">>, preco |-> Cents(1490)],
  [id |-> 6,  nome |-> <<"P", "a">>, preco |-> Cents(2890)],
  [id |-> 7,  nome |-> <<"L", "c">>, preco |-> Cents(3490)],
  [id |-> 8,  nome |-> <<"C", "o">>, preco |-> Cents(850)],
  [id |-> 9,  nome |-> <<"M", "o">>, preco |-> Cents(15990)],
  [id |-> 10, nome |-> <<"L", "t">>, preco |-> Cents(9990)] >>

NOME_MIN_LEN == 2

ErrProdutoNaoEncontrado == "Produto nao encontrado"
ErrNomeProdutoCurto == "Nome do produto muito curto"
ErrPrecoInvalido == "Preco invalido"

ProdutoSemValidarPreco(id, nome, preco) ==
  LET nomeStr == Trim(nome) IN
  IF Len(nomeStr) < NOME_MIN_LEN THEN [erro |-> ErrNomeProdutoCurto, val |-> <<>>]
  ELSE [erro |-> "",
        val |-> <<[id |-> id, nome |-> nomeStr, preco |-> ToFixed2(preco)]>>]

\* new Produto({id, nome, preco}): [erro, val]
Produto(id, nome, preco) ==
  LET nomeStr == Trim(nome) IN
  IF Len(nomeStr) < NOME_MIN_LEN THEN [erro |-> ErrNomeProdutoCurto, val |-> <<>>]
  ELSE IF ~(preco >= 0) THEN [erro |-> ErrPrecoInvalido, val |-> <<>>]
  ELSE [erro |-> "",
        val |-> <<[id |-> id, nome |-> nomeStr, preco |-> ToFixed2(preco)]>>]

\* ProdutoJsonRepository / ProdutoMemoryRepository findById: 0 when absent
ProdutoIdx(lista, id) == FirstIndex(lista, LAMBDA p : p.id = id)

ProdutoExiste(lista, id) == ProdutoIdx(lista, id) # 0

\* Produto.toPlain(): the object written to the file or kept in memory
ProdutoToPlain(p) == [id |-> p.id, nome |-> p.nome, preco |-> p.preco]

\* Produto.fromPlain(plain): the constructor again, on what was stored
ProdutoFromPlain(plain) == Produto(plain.id, plain.nome, plain.preco).val[1]

ProdutoFindById(lista, id) == ProdutoFromPlain(lista[ProdutoIdx(lista, id)])

\* novoId of ProdutoJsonRepository.create / ProdutoMemoryRepository.create
ProdutoNovoId(lista) ==
  IF Len(lista) > 0 THEN Max({lista[i].id : i \in 1..Len(lista)}) + 1 ELSE 1

\* The model create of a product repository returns, for a valid model
ProdutoCriado(lista, model) == Produto(ProdutoNovoId(lista), model.nome, model.preco).val[1]

\* ProdutoService.create({nome, preco})
ProdutoCreate(nome, preco) ==
  LET model == Produto(0, nome, preco) IN
  /\ Len(produtos) < MaxProdutos
  /\ IF model.erro # ""
       THEN /\ resultado' = [op |-> "produto.create", erro |-> model.erro]
            /\ UNCHANGED produtos
       ELSE LET novo == ProdutoCriado(produtos, model.val[1]) IN
            /\ produtos' = Append(produtos, ProdutoToPlain(novo))
            /\ resultado' = [op |-> "produto.create", erro |-> ""]
  /\ Atendido
  /\ UNCHANGED <<bootVars, emVoo, retorno, notaVars, usuarioVars, now>>

\* ProdutoService.update(id, {nome, preco})
ProdutoUpdate(id, nome, preco) ==
  /\ IF ~ProdutoExiste(produtos, id)
       THEN /\ resultado' = [op |-> "produto.update", erro |-> ErrProdutoNaoEncontrado]
            /\ UNCHANGED produtos
       ELSE LET atual == ProdutoFindById(produtos, id)
                validado == Produto(id, Coalesce(nome, atual.nome),
                                    Coalesce(preco, atual.preco)) IN
            IF validado.erro # ""
              THEN /\ resultado' = [op |-> "produto.update", erro |-> validado.erro]
                   /\ UNCHANGED produtos
              ELSE LET idx == ProdutoIdx(produtos, id)
                       atualizado == Produto(id, validado.val[1].nome,
                                             validado.val[1].preco).val[1] IN
                   /\ produtos' = [produtos EXCEPT ![idx] = atualizado]
                   /\ resultado' = [op |-> "produto.update", erro |-> ""]
  /\ Atendido
  /\ UNCHANGED <<bootVars, emVoo, retorno, notaVars, usuarioVars, now>>

\* ProdutoService.remove(id)
ProdutoRemove(id) ==
  LET filtrado == Filter(produtos, LAMBDA p : p.id # id)
      mudou == Len(filtrado) # Len(produtos) IN
  /\ produtos' = IF mudou THEN filtrado ELSE produtos
  /\ resultado' = [op |-> "produto.remove",
                   erro |-> IF mudou THEN "" ELSE ErrProdutoNaoEncontrado]
  /\ Atendido
  /\ UNCHANGED <<bootVars, emVoo, retorno, notaVars, usuarioVars, now>>

----------------------------------------------------------------------------
(* Invoices: model *)

ErrDadosInvalidos == "Dados invalidos da nota"
ErrNumeroExistente == "Numero de nota ja existente"
ErrNotaNaoEncontrada == "Nota nao encontrada"
ErrProdutoItem == "Produto id nao encontrado"
ErrQuantidade == "Quantidade invalida para produto"
ErrNumeroObrigatorio == "Numero da nota e obrigatorio."
ErrClienteCurto == "Nome do cliente muito curto."
ErrItemProductId == "itens[idx].productId invalido"
ErrItemQtd == "itens[idx].qtd invalida"
ErrTotalInvalido == "Total invalido"
ErrSqliteUnique == "SQLITE_CONSTRAINT_UNIQUE"

\* normalizarItens: the error of the first offending item, "" when none
normalizarItensErro(rawArray) ==
  LET bad(it) == ~(it.productId > 0) \/ ~(it.qtd > 0)
      idx == FirstIndex(rawArray, bad) IN
  IF idx = 0 THEN ""
  ELSE IF ~(rawArray[idx].productId > 0) THEN ErrItemProductId ELSE ErrItemQtd

normalizarItens(rawArray) ==
  [i \in 1..Len(rawArray) |->
     [productId |-> rawArray[i].productId, qtd |-> rawArray[i].qtd]]

\* new NotaFiscal({id, numero, cliente_nome, itens, total, created_at}): [erro, val]
NotaFiscal(id, numero, cliente_nome, itens, total, created_at) ==
  LET numeroStr == Trim(numero)
      clienteStr == Trim(cliente_nome) IN
  IF numeroStr = <<>> THEN [erro |-> ErrNumeroObrigatorio, val |-> <<>>]
  ELSE IF Len(clienteStr) < 2 THEN [erro |-> ErrClienteCurto, val |-> <<>>]
  ELSE IF normalizarItensErro(itens) # ""
    THEN [erro |-> normalizarItensErro(itens), val |-> <<>>]
  ELSE IF ~(total >= 0) THEN [erro |-> ErrTotalInvalido, val |-> <<>>]
  ELSE [erro |-> "",
        val |-> <<[id |-> id, numero |-> numeroStr, cliente_nome |-> clienteStr,
                   itens |-> normalizarItens(itens), total |-> ToFixed2(total),
                   created_at |-> paraIsoDate(created_at)]>>]

\* JSON.stringify(this.itens): the text, as the flat sequence of its numbers
RECURSIVE JsonStringify(_)
JsonStringify(itens) ==
  IF itens = <<>> THEN <<>>
  ELSE <<Head(itens).productId, Head(itens).qtd>> \o JsonStringify(Tail(itens))

\* JSON.parse(row.itens_json)
JsonParse(txt) ==
  [i \in 1..(Len(txt) \div 2) |-> [productId |-> txt[2 * i - 1], qtd |-> txt[2 * i]]]

\* NotaFiscal.toDbInsertParams
toDbInsertParams(m) ==
  [numero |-> m.numero, cliente_nome |-> m.cliente_nome,
   itens_json |-> JsonStringify(m.itens), total |-> m.total, created_at |-> m.created_at]

\* sum of (price now in the product store) * qtd, absent products counting 0
RECURSIVE SomaAosPrecosDeAgora(_)
SomaAosPrecosDeAgora(itens) ==
  IF itens = <<>> THEN 0
  ELSE (IF ProdutoExiste(produtos, Head(itens).productId)
          THEN (ProdutoFindById(produtos, Head(itens).productId).preco
                * Head(itens).qtd) \div 2
          ELSE 0)
       + SomaAosPrecosDeAgora(Tail(itens))

\* Mutant of fromDbRow: the total is derived from the product store at each read
fromDbRowTotalDerivado(row) ==
  NotaFiscal(row.id, row.numero, row.cliente_nome, JsonParse(row.itens_json),
             SomaAosPrecosDeAgora(JsonParse(row.itens_json)), row.created_at).val[1]

\* NotaFiscal.fromDbRow
fromDbRow(row) ==
  NotaFiscal(row.id, row.numero, row.cliente_nome, JsonParse(row.itens_json),
             row.total, row.created_at).val[1]

----------------------------------------------------------------------------
(* Invoices: repositories *)

\* The invoices held by the active repository, as models, newest id last
NotasArmazenadas ==
  IF notasBackend = "sqlite"
    THEN [i \in 1..Len(notasDb) |-> fromDbRow(notasDb[i])]
    ELSE [i \in 1..Len(notasItems) |-> notasItems[Len(notasItems) + 1 - i]]

\* findById: index in NotasArmazenadas, 0 when absent
NotaIdx(id) == FirstIndex(NotasArmazenadas, LAMBDA n : n.id = id)

NotaFindById(id) == NotasArmazenadas[NotaIdx(id)]

\* Mutant of NotaFindByNumero: the lookup never finds a row
NotaFindByNumeroNuncaAcha(numero) == FALSE

\* NotaFiscalSqliteRepository.findByNumero (WHERE numero = ?) and
\* NotaFiscalMemoryRepository.findByNumero (n.numero === String(numero))
NotaFindByNumero(numero) ==
  FirstIndex(NotasArmazenadas, LAMBDA n : n.numero = numero) # 0

\* UNIQUE(numero) of table notas_fiscais, for a row written at rowid id
SqliteNumeroLivre(numero, id) ==
  \A i \in 1..Len(notasDb) : notasDb[i].id # id => notasDb[i].numero # numero

\* NotaFiscalSqliteRepository.create: the INSERT
SqliteNotaInsert(m) ==
  Append(notasDb, [id |-> notaIdSeq + 1] @@ toDbInsertParams(m))

\* NotaFiscalSqliteRepository.update: the UPDATE (created_at is not in the SET list)
SqliteNotaUpdate(id, m) ==
  [i \in 1..Len(notasDb) |->
     IF notasDb[i].id = id
       THEN [notasDb[i] EXCEPT !.numero = m.numero, !.cliente_nome = m.cliente_nome,
                               !.itens_json = JsonStringify(m.itens), !.total = m.total]
       ELSE notasDb[i]]

MemoryNotaCreateMaxMaisUm(m) ==
  <<NotaFiscal(IF Len(notasItems) > 0
                 THEN Max({notasItems[i].id : i \in 1..Len(notasItems)}) + 1 ELSE 1,
               m.numero, m.cliente_nome, m.itens, m.total, m.created_at).val[1]>>
    \o notasItems

\* NotaFiscalMemoryRepository.create: id ++_idSeq, items.unshift(novo)
MemoryNotaCreate(m) ==
  <<NotaFiscal(notaIdSeq + 1, m.numero, m.cliente_nome, m.itens, m.total,
               m.created_at).val[1]>> \o notasItems

\* NotaFiscalMemoryRepository.update: items[idx] = atualizado
MemoryNotaUpdate(id, m) ==
  LET idx == FirstIndex(notasItems, LAMBDA n : n.id = id) IN
  [notasItems EXCEPT ![idx] =
     NotaFiscal(id, m.numero, m.cliente_nome, m.itens, m.total, m.created_at).val[1]]

----------------------------------------------------------------------------
(* Invoices: service *)

\* NotaFiscalService._calcularTotal, the loop: [erro, soma, lidos] where lidos
\* records the price read for each product
RECURSIVE CalcularSoma(_, _, _)
CalcularSoma(itens, soma, lidos) ==
  IF itens = <<>> THEN [erro |-> "", soma |-> soma, lidos |-> lidos]
  ELSE LET item == Head(itens) IN
       IF ~ProdutoExiste(produtos, item.productId)
         THEN [erro |-> ErrProdutoItem, soma |-> soma, lidos |-> lidos]
       ELSE IF item.qtd <= 0
         THEN [erro |-> ErrQuantidade, soma |-> soma, lidos |-> lidos]
       ELSE LET prod == ProdutoFindById(produtos, item.productId) IN
            CalcularSoma(Tail(itens), soma + (prod.preco * item.qtd) \div 2,
                         lidos \cup {<<item.productId, prod.preco>>})

\* Mutant loop: the quantity is checked but not multiplied in
RECURSIVE CalcularSomaSemQtd(_, _, _)
CalcularSomaSemQtd(itens, soma, lidos) ==
  IF itens = <<>> THEN [erro |-> "", soma |-> soma, lidos |-> lidos]
  ELSE LET item == Head(itens) IN
       IF ~ProdutoExiste(produtos, item.productId)
         THEN [erro |-> ErrProdutoItem, soma |-> soma, lidos |-> lidos]
       ELSE IF item.qtd <= 0
         THEN [erro |-> ErrQuantidade, soma |-> soma, lidos |-> lidos]
       ELSE LET prod == ProdutoFindById(produtos, item.productId) IN
            CalcularSomaSemQtd(Tail(itens), soma + prod.preco,
                               lidos \cup {<<item.productId, prod.preco>>})

\* Mutant of CalcularTotal: total += prod.preco
CalcularTotalSemQtd(itens) ==
  LET r == CalcularSomaSemQtd(itens, 0, {}) IN
  [erro |-> r.erro, total |-> ToFixed2(r.soma), lidos |-> r.lidos]

\* Mutant loop: a product that is not found is skipped
RECURSIVE CalcularSomaPulaAusente(_, _, _)
CalcularSomaPulaAusente(itens, soma, lidos) ==
  IF itens = <<>> THEN [erro |-> "", soma |-> soma, lidos |-> lidos]
  ELSE LET item == Head(itens) IN
       IF ~ProdutoExiste(produtos, item.productId)
         THEN CalcularSomaPulaAusente(Tail(itens), soma, lidos)
       ELSE IF item.qtd <= 0
         THEN [erro |-> ErrQuantidade, soma |-> soma, lidos |-> lidos]
       ELSE LET prod == ProdutoFindById(produtos, item.productId) IN
            CalcularSomaPulaAusente(Tail(itens), soma + (prod.preco * item.qtd) \div 2,
                                    lidos \cup {<<item.productId, prod.preco>>})

\* Mutant of CalcularTotal: if (!prod) continue
CalcularTotalPulaAusente(itens) ==
  LET r == CalcularSomaPulaAusente(itens, 0, {}) IN
  [erro |-> r.erro, total |-> ToFixed2(r.soma), lidos |-> r.lidos]

\* NotaFiscalService._calcularTotal(itens): [erro, total, lidos]
CalcularTotal(itens) ==
  LET r == CalcularSoma(itens, 0, {}) IN
  [erro |-> r.erro, total |-> ToFixed2(r.soma), lidos |-> r.lidos]

NUM1 == <<"N", "1">>
NUM2 == <<"N", "2">>
NumeroInputs == { Some(NUM1), Some(<<" ", "N", "1">>), Some(NUM2), NoStr }
CLIENTE == <<"A", "l">>
ItensA == << [productId |-> 11, qtd |-> 1] >>
ItensB == << [productId |-> 1, qtd |-> 2], [productId |-> 11, qtd |-> 2] >>
ItensZero == << [productId |-> 1, qtd |-> 2], [productId |-> 1, qtd |-> 0] >>
ItensInputs == { Some(ItensA), Some(ItensB), Some(ItensZero), NoSeq }

\* Request bodies: every number with every item list for a valid customer, and
\* two bodies with a missing or too short customer name
NotaInputs ==
  {[numero |-> n, cliente_nome |-> c, itens |-> i] :
     n \in NumeroInputs, c \in {Some(CLIENTE)}, i \in ItensInputs}
  \cup {[numero |-> Some(NUM2), cliente_nome |-> Some(<<"A">>), itens |-> Some(ItensA)],
        [numero |-> Some(NUM2), cliente_nome |-> NoStr, itens |-> NoSeq]}
NotaIdInputs == 1..(MaxNotaId + 1)

\* !x for a string-valued request field
Falsy(x) == ~x.def \/ x.val = <<>>

\* NotaFiscalService.create before its await: the failure, "" when it goes on
NFCreatePrefixo(numero, cliente_nome, itens) ==
  IF Falsy(numero) \/ Falsy(cliente_nome) \/ ~itens.def THEN ErrDadosInvalidos
  ELSE IF NotaFindByNumero(numero.val) THEN ErrNumeroExistente
  ELSE ""

\* NotaFiscalService.create from await _calcularTotal to the repository call:
\* [erro, model, lidos]
NFCreateResto(numero, cliente_nome, itens) ==
  LET calc == CalcularTotal(itens.val) IN
  IF calc.erro # "" THEN [erro |-> calc.erro, model |-> <<>>, lidos |-> {}]
  ELSE LET m == NotaFiscal(0, numero.val, cliente_nome.val, itens.val,
                           calc.total, ToISOString(now)) IN
       IF m.erro # "" THEN [erro |-> m.erro, model |-> <<>>, lidos |-> {}]
       ELSE IF notasBackend = "sqlite" /\ ~SqliteNumeroLivre(m.val[1].numero, 0)
         THEN [erro |-> ErrSqliteUnique, model |-> <<>>, lidos |-> {}]
       ELSE [erro |-> "", model |-> m.val, lidos |-> calc.lidos]

\* NotaFiscalService.create, up to the repository call: [erro, model, lidos]
NFCreateOutcome(numero, cliente_nome, itens) ==
  IF NFCreatePrefixo(numero, cliente_nome, itens) # ""
    THEN [erro |-> NFCreatePrefixo(numero, cliente_nome, itens), model |-> <<>>,
          lidos |-> {}]
  ELSE NFCreateResto(numero, cliente_nome, itens)

\* NotaFiscalService.create({numero, cliente_nome, itens})
NFCreate(numero, cliente_nome, itens) ==
  \E out \in {NFCreateOutcome(numero, cliente_nome, itens)} :
  /\ resultado' = [op |-> "nota.create", erro |-> out.erro]
  /\ IF out.erro # ""
       THEN UNCHANGED <<notaVars, now>>
       ELSE /\ notaIdSeq < MaxNotaId
            /\ notaIdSeq' = notaIdSeq + 1
            /\ now' = now + 1
            /\ precosLidos' = [precosLidos EXCEPT ![notaIdSeq + 1] = out.lidos]
            /\ IF notasBackend = "sqlite"
                 THEN /\ notasDb' = SqliteNotaInsert(out.model[1])
                      /\ UNCHANGED notasItems
                 ELSE /\ notasItems' = MemoryNotaCreate(out.model[1])
                      /\ UNCHANGED notasDb
  /\ Atendido
  /\ UNCHANGED <<bootVars, emVoo, retorno, produtos, usuarioVars>>

\* Mutant of NumeroMudou: the uniqueness check runs for every supplied number
NumeroMudouSempre(numero, atual) == ~Falsy(numero)

\* NotaFiscalService.update: numero && numero !== atual.numero
NumeroMudou(numero, atual) == ~Falsy(numero) /\ numero.val # atual.numero

\* Mutant of NFUpdateTotal: without items in the request the old total is kept
NFUpdateTotalSoComItens(itens, atual) ==
  IF itens.def THEN CalcularTotal(itens.val)
  ELSE [erro |-> CalcularTotal(atual.itens).erro, total |-> atual.total,
        lidos |-> CalcularTotal(atual.itens).lidos]

\* NotaFiscalService.update: _calcularTotal(itens ?? atual.itens)
NFUpdateTotal(itens, atual) == CalcularTotal(Coalesce(itens, atual.itens))

\* Mutant of NFUpdateCreatedAt: the update stamps a new date
NFUpdateCreatedAtNovo(atual) == ToISOString(now)

\* NotaFiscalService.update: created_at: atual.created_at
NFUpdateCreatedAt(atual) == atual.created_at

\* atualizada.toPlain() on the null that update(id, model) returns for an id
\* that is not stored
ErrNullDeref == "Cannot read properties of null"

\* NotaFiscalService.update before its await: the failure, "" when it goes on
NFUpdatePrefixo(id, numero) ==
  IF NotaIdx(id) = 0 THEN ErrNotaNaoEncontrada
  ELSE IF NumeroMudou(numero, NotaFindById(id)) /\ NotaFindByNumero(numero.val)
    THEN ErrNumeroExistente
  ELSE ""

\* NotaFiscalService.update from await _calcularTotal to its return, atual
\* being what findById gave before the await: [erro, model, lidos]
NFUpdateResto(id, atual, numero, cliente_nome, itens) ==
  LET itensParaCalculo == Coalesce(itens, atual.itens)
      calc == NFUpdateTotal(itens, atual) IN
  IF calc.erro # "" THEN [erro |-> calc.erro, model |-> <<>>, lidos |-> {}]
  ELSE LET m == NotaFiscal(id, Coalesce(numero, atual.numero),
                           Coalesce(cliente_nome, atual.cliente_nome),
                           itensParaCalculo, calc.total,
                           NFUpdateCreatedAt(atual)) IN
       IF m.erro # "" THEN [erro |-> m.erro, model |-> <<>>, lidos |-> {}]
       ELSE IF NotaIdx(id) = 0
         THEN [erro |-> ErrNullDeref, model |-> <<>>, lidos |-> {}]
       ELSE IF notasBackend = "sqlite" /\ ~SqliteNumeroLivre(m.val[1].numero, id)
         THEN [erro |-> ErrSqliteUnique, model |-> <<>>, lidos |-> {}]
       ELSE [erro |-> "", model |-> m.val, lidos |-> calc.lidos]

\* NotaFiscalService.update, up to the repository call: [erro, model, lidos]
NFUpdateOutcome(id, numero, cliente_nome, itens) ==
  IF NFUpdatePrefixo(id, numero) # ""
    THEN [erro |-> NFUpdatePrefixo(id, numero), model |-> <<>>, lidos |-> {}]
  ELSE NFUpdateResto(id, NotaFindById(id), numero, cliente_nome, itens)

\* NotaFiscalService.update(id, {numero, cliente_nome, itens})
NFUpdate(id, numero, cliente_nome, itens) ==
  \E out \in {NFUpdateOutcome(id, numero, cliente_nome, itens)} :
  /\ resultado' = [op |-> "nota.update", erro |-> out.erro]
  /\ IF out.erro # ""
       THEN UNCHANGED notaVars
       ELSE /\ precosLidos' = [precosLidos EXCEPT ![id] = out.lidos]
            /\ UNCHANGED notaIdSeq
            /\ IF notasBackend = "sqlite"
                 THEN /\ notasDb' = SqliteNotaUpdate(id, out.model[1])
                      /\ UNCHANGED notasItems
                 ELSE /\ notasItems' = MemoryNotaUpdate(id, out.model[1])
                      /\ UNCHANGED notasDb
  /\ Atendido
  /\ UNCHANGED <<bootVars, emVoo, retorno, produtos, usuarioVars, now>>

\* NotaFiscalService.remove(id)
NFRemove(id) ==
  /\ resultado' = [op |-> "nota.remove",
                   erro |-> IF NotaIdx(id) = 0 THEN ErrNotaNaoEncontrada ELSE ""]
  /\ notasDb' = Filter(notasDb, LAMBDA r : r.id # id)
  /\ notasItems' = Filter(notasItems, LAMBDA n : n.id # id)
  /\ UNCHANGED <<notaIdSeq, precosLidos>>
  /\ Atendido
  /\ UNCHANGED <<bootVars, emVoo, retorno, produtos, usuarioVars, now>>

\* NotaFiscalService.get(id)
NFGet(id) ==
  /\ resultado' = [op |-> "nota.get",
                   erro |-> IF NotaIdx(id) = 0 THEN ErrNotaNaoEncontrada ELSE ""]
  /\ Atendido
  /\ UNCHANGED <<bootVars, emVoo, retorno, produtos, notaVars, usuarioVars, now>>

----------------------------------------------------------------------------
(* Boot and specifications *)

\* The slots for requests in flight
Slots == 1..MaxEmVoo

\* A slot with no request in it
Ocioso == [op |-> "", pc |-> "idle", id |-> 0, corpo |-> <<>>, lista |-> <<>>,
           atual |-> <<>>, erro |-> ""]

\* No request in the middleware chain
SemPedido == [rota |-> "", authorization |-> NoStr, fase |-> "atendido"]

\* A returned value: the user views and the token payload it carries
RetornoVazio == [data |-> <<>>, token |-> <<>>]

Clock0 == 999

\* What can fail at boot: writing a product file at the configured path and
\* under /tmp, SQLite at the configured path (new Sqlite throwing, "open", or
\* the CREATE TABLE after it, "schema") and whether that failure is gone when
\* bootstrap tries again (a lock released, a directory created meanwhile),
\* opening /tmp/notas.db, and reaching MySQL
Falhas == [json : BOOLEAN, tmpJson : BOOLEAN, sqlite : {"", "open", "schema"},
           passageira : BOOLEAN, tmpDb : BOOLEAN, mysql : BOOLEAN]

\* A file on disk
ArquivoAusente == [existe |-> FALSE, conteudo |-> <<>>]

Arquivo(conteudo) == [existe |-> TRUE, conteudo |-> conteudo]

\* bootstrap's locals before its first statement
BootInicio(falhas) ==
  [pc |-> "produtos", falhas |-> falhas, raised |-> FALSE,
   disco |-> [env |-> ArquivoAusente, tmp |-> ArquivoAusente],
   produtoRepo |-> "null", produtosBackend |-> "json", produtosJsonPath |-> "env",
   sqliteOk |-> FALSE, sqlitePathInUse |-> "null", sqliteDb |-> "null",
   usuarioRepo |-> "null", mysqlConnected |-> FALSE, notaRepo |-> "null",
   services |-> [usuarios |-> "null", produtos |-> "null", notas |-> "null"]]

\* bootstrap's locals once it has run with the product file writable, given
\* whether SQLite and MySQL came up
BootFeito(sqliteOk, mysqlConnected) ==
  LET u == IF mysqlConnected THEN "UsuarioMySqlRepository"
           ELSE IF sqliteOk THEN "UsuarioSqliteRepository"
           ELSE "UsuarioMemoryRepository"
      n == IF sqliteOk THEN "NotaFiscalSqliteRepository"
           ELSE "NotaFiscalMemoryRepository" IN
  [pc |-> "done", raised |-> FALSE,
   falhas |-> [json |-> FALSE, tmpJson |-> FALSE,
               sqlite |-> IF sqliteOk THEN "" ELSE "open", passageira |-> FALSE,
               tmpDb |-> FALSE, mysql |-> ~mysqlConnected],
   disco |-> [env |-> Arquivo(produtosSeed), tmp |-> ArquivoAusente],
   produtoRepo |-> "ProdutoJsonRepository", produtosBackend |-> "json",
   produtosJsonPath |-> "env",
   sqliteOk |-> sqliteOk, sqlitePathInUse |-> IF sqliteOk THEN "(env)" ELSE "null",
   sqliteDb |-> IF sqliteOk THEN "SQLITE_FILE" ELSE "null",
   usuarioRepo |-> u, mysqlConnected |-> mysqlConnected, notaRepo |-> n,
   services |-> [usuarios |-> u, produtos |-> "ProdutoJsonRepository", notas |-> n]]

\* The state once bootstrap has run: the backends follow from which stores
\* could be opened
Init ==
  /\ \E sqliteOk \in BOOLEAN, mysqlConnected \in BOOLEAN :
       /\ notasBackend = IF sqliteOk THEN "sqlite" ELSE "memory"
       /\ usuariosBackend = IF mysqlConnected THEN "mysql"
                            ELSE IF sqliteOk THEN "sqlite" ELSE "memory"
       /\ boot = BootFeito(sqliteOk, mysqlConnected)
  /\ produtos = produtosSeed
  /\ notasDb = <<>>
  /\ notasItems = <<>>
  /\ notaIdSeq = 0
  /\ precosLidos = [i \in 1..MaxNotaId |-> {}]
  /\ usuariosDb = <<>>
  /\ usuariosItems = <<>>
  /\ usuarioIdSeq = 0
  /\ now = Clock0
  /\ resultado = [op |-> "boot", erro |-> ""]
  /\ retorno = RetornoVazio
  /\ emVoo = [s \in Slots |-> Ocioso]
  /\ pedido = SemPedido

\* Product requests used against the invoices: product 11 is created, renamed,
\* repriced and removed (1.505 rounds to 1.51, 0.505 to 0.51); 99 never exists
NextNotas ==
  \/ ProdutoCreate(<<"P", "e">>, 301)
  \/ \E id \in {11, 99}, body \in {[nome |-> NoStr, preco |-> Some(101)],
                                   [nome |-> Some(<<" ", "O", "x">>), preco |-> NoNum]} :
       ProdutoUpdate(id, body.nome, body.preco)
  \/ \E id \in {11, 99} : ProdutoRemove(id)
  \/ \E body \in NotaInputs : NFCreate(body.numero, body.cliente_nome, body.itens)
  \/ \E id \in NotaIdInputs, body \in NotaInputs :
       NFUpdate(id, body.numero, body.cliente_nome, body.itens)
  \/ \E id \in NotaIdInputs : NFRemove(id)

\* Invoices and products only: the user backend plays no part
InitNotas == Init /\ usuariosBackend = "mysql"

SpecNotas == InitNotas /\ [][NextNotas]_vars

----------------------------------------------------------------------------
(* Arithmetic of the claims, stated apart from the code's *)

\* Nearest whole cent of an amount in half cents, halves up
RoundCents(n) == IF n % 2 = 0 THEN n ELSE n + 1

\* sum over the items of price(productId) * qtd, with qtd in halves
RECURSIVE SomaItens(_, _)
SomaItens(preco, itens) ==
  IF itens = <<>> THEN 0
  ELSE (preco[Head(itens).productId] * Head(itens).qtd) \div 2
       + SomaItens(preco, Tail(itens))

\* The prices now in the product store, by product id
PrecoAtual == [pid \in Range([i \in 1..Len(produtos) |-> produtos[i].id]) |->
                 ProdutoFindById(produtos, pid).preco]

\* The prices read by the last successful create/update of invoice id
PrecoLido(id) == [pid \in {pr[1] : pr \in precosLidos[id]} |->
                    (CHOOSE pr \in precosLidos[id] : pr[1] = pid)[2]]

ItensResolvidos(preco, itens) ==
  \A k \in 1..Len(itens) : itens[k].productId \in DOMAIN preco

OpsProduto == {"produto.create", "produto.update", "produto.remove"}
OpsNotaEscrita == {"nota.create", "nota.update"}

\* A failed create or update of an invoice writes nothing to the invoice store
FalhaNaoEscreve ==
  (resultado'.op \in OpsNotaEscrita /\ resultado'.erro # "")
    => UNCHANGED <<notasDb, notasItems, notaIdSeq>>

----------------------------------------------------------------------------
(* C1..C8: invoices *)

\* C1: every stored invoice's total is the sum, rounded to 2 decimals, over its
\* stored line items of (price the product had when the invoice's last successful
\* create/update ran) * quantity.
C1_TotalCongelado ==
  \A i \in 1..Len(NotasArmazenadas) :
    LET n == NotasArmazenadas[i] IN
    /\ ItensResolvidos(PrecoLido(n.id), n.itens)
    /\ n.total = RoundCents(SomaItens(PrecoLido(n.id), n.itens))

\* C1 witness: a stored invoice totals 0.5 * 1.51 = 0.755 -> 0.76 although
\* product 11 now costs 0.51
C1_Witness ==
  \E i \in 1..Len(NotasArmazenadas) :
    /\ NotasArmazenadas[i].itens = ItensA
    /\ NotasArmazenadas[i].total = 152
    /\ ProdutoExiste(produtos, 11)
    /\ ProdutoFindById(produtos, 11).preco = 102

\* C2: a ProdutoService create, update or remove leaves every stored invoice
\* unchanged in all fields.
C2_ProdutoNaoAlteraNotas ==
  [][resultado'.op \in OpsProduto => NotasArmazenadas' = NotasArmazenadas]_vars

\* C2 witness: a product update has just succeeded and a stored invoice still
\* carries the total of the price read before it
C2_Witness ==
  /\ resultado = [op |-> "produto.update", erro |-> ""]
  /\ \E i \in 1..Len(NotasArmazenadas) :
       LET n == NotasArmazenadas[i] IN
       /\ n.itens = ItensB
       /\ n.total = 1002
       /\ ProdutoFindById(produtos, 11).preco = 102

\* C3 (as claimed): no two stored invoices have the same number, on either
\* invoice backend, whitespace variants of a stored number included.
C3_NumerosUnicos ==
  \A i, j \in 1..Len(NotasArmazenadas) :
    i # j => NotasArmazenadas[i].numero # NotasArmazenadas[j].numero

\* C4: create with all required fields and a number equal to a stored one fails
\* with the duplicate failure, and the invoice store stays as it was.
C4_CreateDuplicado ==
  /\ [](\A body \in NotaInputs :
          (~Falsy(body.numero) /\ ~Falsy(body.cliente_nome) /\ body.itens.def
           /\ \E i \in 1..Len(NotasArmazenadas) :
                NotasArmazenadas[i].numero = body.numero.val)
            => NFCreateOutcome(body.numero, body.cliente_nome, body.itens).erro
                 = ErrNumeroExistente)
  /\ [][FalhaNaoEscreve]_vars

C4_Witness ==
  /\ resultado = [op |-> "nota.create", erro |-> ErrNumeroExistente]
  /\ Len(NotasArmazenadas) = 1

\* A line item that names a product missing from the store, or a quantity <= 0
ItemRuim(itens) ==
  \E k \in 1..Len(itens) :
    ~ProdutoExiste(produtos, itens[k].productId) \/ itens[k].qtd <= 0

\* C5: a create or update whose request holds such a line item fails, and the
\* invoice store stays as it was.
C5_ItemRuimFalha ==
  /\ [](\A body \in NotaInputs :
          (body.itens.def /\ ItemRuim(body.itens.val))
            => /\ NFCreateOutcome(body.numero, body.cliente_nome, body.itens).erro # ""
               /\ \A id \in NotaIdInputs :
                    NFUpdateOutcome(id, body.numero, body.cliente_nome,
                                    body.itens).erro # "")
  /\ [][FalhaNaoEscreve]_vars

C5_Witness ==
  /\ resultado = [op |-> "nota.update", erro |-> ErrProdutoItem]
  /\ Len(NotasArmazenadas) = 2

\* C6: an invoice keeps the created_at it got at creation for as long as it is
\* stored, whatever is updated.
C6_CreatedAtPreservado ==
  [][\A i \in 1..Len(NotasArmazenadas), j \in 1..Len(NotasArmazenadas') :
       NotasArmazenadas[i].id = NotasArmazenadas'[j].id
         => NotasArmazenadas'[j].created_at = NotasArmazenadas[i].created_at]_vars

\* C6 witness: the invoice created first has just been updated, two clock
\* readings later
C6_Witness ==
  /\ resultado = [op |-> "nota.update", erro |-> ""]
  /\ Len(NotasArmazenadas) = 1
  /\ NotasArmazenadas[1].id = 1
  /\ NotasArmazenadas[1].created_at = <<0, 999>>
  /\ now = 1001

\* C7: a successful update hands the repository the items of the request (the
\* stored items when the request has none) and their total at the prices now in
\* the product store, and that is the total then stored.
C7_UpdateRecalcula ==
  /\ [](\A id \in NotaIdInputs, body \in NotaInputs :
          LET out == NFUpdateOutcome(id, body.numero, body.cliente_nome, body.itens)
              itens == Coalesce(body.itens, NotaFindById(id).itens) IN
          out.erro = ""
            => /\ out.model[1].itens = itens
               /\ ItensResolvidos(PrecoAtual, itens)
               /\ out.model[1].total = RoundCents(SomaItens(PrecoAtual, itens)))
  /\ [][(resultado'.op = "nota.update" /\ resultado'.erro = "")
          => \A j \in 1..Len(NotasArmazenadas') :
               LET n == NotasArmazenadas'[j] IN
               precosLidos'[n.id] # precosLidos[n.id]
                 => n.total = RoundCents(SomaItens(PrecoAtual, n.itens))]_vars

\* C7 witness: an update has succeeded on an invoice that now totals
\* 3.50 + 0.51 = 4.01, the price of product 11 being 0.51
C7_Witness ==
  /\ resultado = [op |-> "nota.update", erro |-> ""]
  /\ Len(NotasArmazenadas) = 1
  /\ NotasArmazenadas[1].itens = ItensB
  /\ NotasArmazenadas[1].total = 802
  /\ now = 1000

\* C8: an update to a number that differs from the invoice's own and is the number
\* of another stored invoice fails with the duplicate failure and writes nothing;
\* an update to the invoice's own number is not refused as a duplicate.
C8_UpdateNumero ==
  /\ [](\A id \in NotaIdInputs, body \in NotaInputs :
          (NotaIdx(id) # 0 /\ ~Falsy(body.numero))
            => LET erro == NFUpdateOutcome(id, body.numero, body.cliente_nome,
                                           body.itens).erro IN
               /\ (/\ body.numero.val # NotaFindById(id).numero
                   /\ \E i \in 1..Len(NotasArmazenadas) :
                        /\ NotasArmazenadas[i].id # id
                        /\ NotasArmazenadas[i].numero = body.numero.val)
                    => erro = ErrNumeroExistente
               /\ body.numero.val = NotaFindById(id).numero
                    => erro \notin {ErrNumeroExistente, ErrSqliteUnique})
  /\ [][FalhaNaoEscreve]_vars

C8_Witness ==
  /\ resultado = [op |-> "nota.update", erro |-> ErrNumeroExistente]
  /\ Len(NotasArmazenadas) = 2
  /\ NotasArmazenadas[1].numero # NotasArmazenadas[2].numero

----------------------------------------------------------------------------
(* Users: model *)

\* An e-mail address is its characters, the domain after "@" written as one symbol
ErrEmailJaCadastrado == "E-mail ja cadastrado."
ErrLoginInvalido == "Usuario/senha invalidos."
ErrEmailEmUso == "E-mail ja em uso por outro usuario"
ErrUsuarioNaoEncontrado == "Usuario nao encontrado"
ErrNomeCurto == "Nome muito curto"
ErrEmailInvalido == "E-mail invalido."
ErrEmailNaoString == "Expected a string but received a boolean"
ErrSenhaHashAusente == "senha_hash ausente."
ErrSenhaInvalida == "Senha invalida"
ErrUsuarioUnique == "UNIQUE constraint failed: usuarios.email"
ErrBindUndefined == "undefined bound to a NOT NULL column"

\* Position of the last "@" of s, 0 when there is none
LastAt(s) ==
  LET hits == {i \in 1..Len(s) : s[i] = "@"} IN
  IF hits = {} THEN 0 ELSE Max(hits)

GmailDomains == {"gmail.com", "googlemail.com"}

\* validator.normalizeEmail with its default options, on a lower-cased string:
\* user@domain split at the last "@"; for Gmail the "+tag" and the dots of the
\* user part are dropped (false when nothing is left) and googlemail.com
\* becomes gmail.com
NormalizeEmail(s) ==
  LET at == LastAt(s)
      user == IF at = 0 THEN <<>> ELSE SubSeq(s, 1, at - 1)
      domain == ToLowerCase(IF at = 0 THEN s ELSE SubSeq(s, at + 1, Len(s)))
      plus == FirstIndex(user, LAMBDA c : c = "+")
      semTag == IF plus = 0 THEN user ELSE SubSeq(user, 1, plus - 1)
      semPontos == Filter(semTag, LAMBDA c : c # ".") IN
  IF domain \in {<<d>> : d \in GmailDomains}
    THEN IF semPontos = <<>> THEN [ok |-> FALSE, val |-> <<>>]
         ELSE [ok |-> TRUE, val |-> ToLowerCase(semPontos) \o <<"@", "gmail.com">>]
    ELSE [ok |-> TRUE, val |-> ToLowerCase(user) \o <<"@">> \o domain]

Dominios == {"x.com"} \cup GmailDomains

\* validator.isEmail: one "@" between a non-empty user part, without blanks and
\* without a dot at either end or two dots in a row, and a domain name
IsEmail(s) ==
  LET at == LastAt(s)
      user == SubSeq(s, 1, at - 1) IN
  /\ at > 1
  /\ at = Len(s) - 1
  /\ s[Len(s)] \in Dominios
  /\ \A i \in 1..Len(user) : user[i] \notin {" ", "@"}
  /\ user[1] # "." /\ user[Len(user)] # "."
  /\ \A i \in 1..(Len(user) - 1) : ~(user[i] = "." /\ user[i + 1] = ".")

\* The e-mail the Usuario constructor stores: trim, lower case, normalizeEmail.
\* normalizeEmail answers false, never null, for a Gmail address with an empty
\* user part, so "?? emailStr" does not apply to it
EmailDoModelo(email) == NormalizeEmail(ToLowerCase(Trim(email))).val

\* new Usuario({id, nome, email, senha_hash, created_at}): [erro, val]
Usuario(id, nome, email, senha_hash, created_at) ==
  LET nomeStr == Trim(nome)
      emailStr == EmailDoModelo(email) IN
  IF Len(nomeStr) < NOME_MIN_LEN THEN [erro |-> ErrNomeCurto, val |-> <<>>]
  ELSE IF ~NormalizeEmail(ToLowerCase(Trim(email))).ok
    THEN [erro |-> ErrEmailNaoString, val |-> <<>>]
  ELSE IF ~IsEmail(emailStr) THEN [erro |-> ErrEmailInvalido, val |-> <<>>]
  ELSE IF Trim(senha_hash) = <<>> THEN [erro |-> ErrSenhaHashAusente, val |-> <<>>]
  ELSE [erro |-> "",
        val |-> <<[id |-> id, nome |-> nomeStr, email |-> emailStr,
                   senha_hash |-> Trim(senha_hash),
                   created_at |-> paraIsoDate(created_at)]>>]

\* Usuario.fromDbRow: [erro, val]
UsuarioFromDbRow(row) ==
  Usuario(row.id, row.nome, row.email, row.senha_hash, row.created_at)

\* bcrypt.hash(plaintext, 10), the random salt left out
hashSenha(plaintext) == <<"$2b$10$">> \o plaintext

\* bcrypt.compare(plaintext, hash)
compareSenha(plaintext, hash) == hash = hashSenha(plaintext)

----------------------------------------------------------------------------
(* Users: repositories *)

\* The stored user records as the store holds them, oldest id first
UsuariosArmazenados ==
  IF usuariosBackend = "memory"
    THEN [i \in 1..Len(usuariosItems) |-> usuariosItems[Len(usuariosItems) + 1 - i]]
    ELSE usuariosDb

\* The comparison "email = ?" of the SQL store: bytewise in SQLite, under the
\* default case-insensitive collation in MySQL
SqlEmailIgual(a, b) ==
  IF usuariosBackend = "mysql" THEN ToLowerCase(a) = ToLowerCase(b) ELSE a = b

\* UNIQUE(email) of table usuarios, for a row written with this id
UsuarioEmailLivre(email, id) ==
  \A i \in 1..Len(usuariosDb) :
    usuariosDb[i].id # id => ~SqlEmailIgual(usuariosDb[i].email, email)

\* findByEmail of the three user repositories: [erro, user], user = <<>> for null
UsuarioFindByEmail(email) ==
  IF usuariosBackend = "memory"
    THEN LET e == ToLowerCase(Trim(email))
             idx == FirstIndex(usuariosItems, LAMBDA u : u.email = e) IN
         [erro |-> "", user |-> IF idx = 0 THEN <<>> ELSE <<usuariosItems[idx]>>]
    ELSE LET idx == FirstIndex(usuariosDb, LAMBDA r : SqlEmailIgual(r.email, email)) IN
         IF idx = 0 THEN [erro |-> "", user |-> <<>>]
         ELSE [erro |-> UsuarioFromDbRow(usuariosDb[idx]).erro,
               user |-> UsuarioFromDbRow(usuariosDb[idx]).val]

\* index of the record with this id in the active store, 0 when absent
UsuarioIdx(id) ==
  IF usuariosBackend = "memory"
    THEN FirstIndex(usuariosItems, LAMBDA u : u.id = id)
    ELSE FirstIndex(usuariosDb, LAMBDA r : r.id = id)

\* CURRENT_TIMESTAMP / datetime('now'): the clock to the second
SqlNow == <<now \div 1000, 0>>

\* UsuarioSqliteRepository.create / UsuarioMySqlRepository.create: the INSERT
SqlUsuarioInsert(m) ==
  Append(usuariosDb, [id |-> usuarioIdSeq + 1, nome |-> m.nome, email |-> m.email,
                      senha_hash |-> m.senha_hash, created_at |-> SqlNow])

\* UsuarioMemoryRepository.create: items.unshift(novo)
MemoryUsuarioCreate(m) ==
  <<Usuario(usuarioIdSeq + 1, m.nome, m.email, m.senha_hash,
            ToISOString(now)).val[1]>> \o usuariosItems

\* UsuarioSqliteRepository.update / UsuarioMySqlRepository.update:
\* [erro, db].  An undefined field cannot be bound (SQLite) or is sent as NULL to
\* a NOT NULL column (MySQL, when a row matches); otherwise the row is written as
\* given and then read back through Usuario.fromDbRow
SqlUsuarioUpdate(id, nome, email) ==
  LET idx == FirstIndex(usuariosDb, LAMBDA r : r.id = id)
      escrito == [usuariosDb EXCEPT ![idx] = [@ EXCEPT !.nome = nome.val,
                                                       !.email = email.val]] IN
  IF (~nome.def \/ ~email.def) /\ (usuariosBackend = "sqlite" \/ idx # 0)
    THEN [erro |-> ErrBindUndefined, db |-> usuariosDb]
  ELSE IF idx = 0 THEN [erro |-> ErrUsuarioNaoEncontrado, db |-> usuariosDb]
  ELSE IF ~UsuarioEmailLivre(email.val, id)
    THEN [erro |-> ErrUsuarioUnique, db |-> usuariosDb]
  ELSE [erro |-> UsuarioFromDbRow(escrito[idx]).erro, db |-> escrito]

\* Mutant of MemoryUsuarioUpdate: the updated user is dated anew
MemoryUsuarioUpdateNovaData(id, nome, email) ==
  LET idx == FirstIndex(usuariosItems, LAMBDA u : u.id = id) IN
  IF idx = 0 THEN [erro |-> ErrUsuarioNaoEncontrado, items |-> usuariosItems]
  ELSE LET atual == usuariosItems[idx]
           atualizado == Usuario(id, Coalesce(nome, atual.nome),
                                 Coalesce(email, atual.email), atual.senha_hash,
                                 ToISOString(now)) IN
       IF atualizado.erro # "" THEN [erro |-> atualizado.erro, items |-> usuariosItems]
       ELSE [erro |-> "", items |-> [usuariosItems EXCEPT ![idx] = atualizado.val[1]]]

\* UsuarioMemoryRepository.update: [erro, items]
MemoryUsuarioUpdate(id, nome, email) ==
  LET idx == FirstIndex(usuariosItems, LAMBDA u : u.id = id) IN
  IF idx = 0 THEN [erro |-> ErrUsuarioNaoEncontrado, items |-> usuariosItems]
  ELSE LET atual == usuariosItems[idx]
           atualizado == Usuario(id, Coalesce(nome, atual.nome),
                                 Coalesce(email, atual.email), atual.senha_hash,
                                 atual.created_at) IN
       IF atualizado.erro # "" THEN [erro |-> atualizado.erro, items |-> usuariosItems]
       ELSE [erro |-> "", items |-> [usuariosItems EXCEPT ![idx] = atualizado.val[1]]]

----------------------------------------------------------------------------
(* Users: services *)

\* Mutant of toPublic: the whole record, as toPlain gives it
toPlain(u) == u

\* Usuario.toPublic
toPublic(u) == [id |-> u.id, nome |-> u.nome, email |-> u.email,
                created_at |-> u.created_at]

\* generateJwt(payload): the payload jwt.sign puts in the token, with iat and
\* exp = iat + 2h in seconds (the signature is left out)
generateJwt(payload) ==
  payload @@ [iat |-> now \div 1000, exp |-> now \div 1000 + 2 * 60 * 60]

\* { usuario: user.toPublic(), token } of register and login
RetornoAuth(user) ==
  [data |-> <<toPublic(user)>>,
   token |-> <<generateJwt([id |-> user.id, email |-> user.email])>>]

\* findById of the three user repositories on a given store
UsuarioFindByIdEm(db, items, id) ==
  IF usuariosBackend = "memory"
    THEN LET idx == FirstIndex(items, LAMBDA u : u.id = id) IN
         [erro |-> "", user |-> IF idx = 0 THEN <<>> ELSE <<items[idx]>>]
    ELSE LET idx == FirstIndex(db, LAMBDA r : r.id = id) IN
         IF idx = 0 THEN [erro |-> "", user |-> <<>>]
         ELSE [erro |-> UsuarioFromDbRow(db[idx]).erro,
               user |-> UsuarioFromDbRow(db[idx]).val]

UsuarioCriadoSemReler(m) ==
  LET novo == Usuario(usuarioIdSeq + 1, m.nome, m.email, m.senha_hash,
                      ToISOString(now)).val[1] IN
  IF usuariosBackend = "memory"
    THEN [user |-> novo, db |-> usuariosDb, items |-> MemoryUsuarioCreate(m)]
    ELSE [user |-> novo, db |-> SqlUsuarioInsert(m), items |-> usuariosItems]

\* create(usuarioModel) of the three user repositories: [user, db, items], the
\* entity returned and the store left.  Memory returns the object it stored;
\* SQLite and MySQL return this.findById of the new row
UsuarioCriado(m) ==
  IF usuariosBackend = "memory"
    THEN [user |-> MemoryUsuarioCreate(m)[1], db |-> usuariosDb,
          items |-> MemoryUsuarioCreate(m)]
    ELSE [user |-> UsuarioFindByIdEm(SqlUsuarioInsert(m), usuariosItems,
                                     usuarioIdSeq + 1).user[1],
          db |-> SqlUsuarioInsert(m), items |-> usuariosItems]

\* AuthService.register, up to the repository call: [erro, model, noInsert]
\* where noInsert tells that the failure is the INSERT's
AuthRegisterOutcome(nome, email, senha) ==
  LET jaExiste == UsuarioFindByEmail(email) IN
  IF jaExiste.erro # "" THEN [erro |-> jaExiste.erro, model |-> <<>>, noInsert |-> FALSE]
  ELSE IF jaExiste.user # <<>>
    THEN [erro |-> ErrEmailJaCadastrado, model |-> <<>>, noInsert |-> FALSE]
  ELSE IF senha = <<>> THEN [erro |-> ErrSenhaInvalida, model |-> <<>>, noInsert |-> FALSE]
  ELSE LET novo == Usuario(0, nome, email, hashSenha(senha), ToISOString(now)) IN
       IF novo.erro # "" THEN [erro |-> novo.erro, model |-> <<>>, noInsert |-> FALSE]
       ELSE IF usuariosBackend # "memory" /\ ~UsuarioEmailLivre(novo.val[1].email, 0)
         THEN [erro |-> ErrUsuarioUnique, model |-> <<>>, noInsert |-> TRUE]
       ELSE [erro |-> "", model |-> novo.val, noInsert |-> FALSE]

\* AuthService.register({nome, email, senha}).  InnoDB hands out the
\* AUTO_INCREMENT value before the INSERT meets the UNIQUE index, so a refused
\* INSERT uses one up in MySQL; SQLite and the in-memory store keep theirs
AuthRegister(nome, email, senha) ==
  \E out \in {AuthRegisterOutcome(nome, email, senha)} :
  /\ resultado' = [op |-> "auth.register", erro |-> out.erro]
  /\ IF out.erro # ""
       THEN /\ UNCHANGED <<usuariosDb, usuariosItems, now>>
            /\ retorno' = RetornoVazio
            /\ IF out.noInsert /\ usuariosBackend = "mysql"
                 THEN /\ usuarioIdSeq < MaxUsuarioId
                      /\ usuarioIdSeq' = usuarioIdSeq + 1
                 ELSE UNCHANGED usuarioIdSeq
       ELSE /\ usuarioIdSeq < MaxUsuarioId
            /\ usuarioIdSeq' = usuarioIdSeq + 1
            /\ now' = now + 1
            /\ \E criado \in {UsuarioCriado(out.model[1])} :
                 /\ usuariosDb' = criado.db
                 /\ usuariosItems' = criado.items
                 /\ retorno' = RetornoAuth(criado.user)
  /\ Atendido
  /\ UNCHANGED <<bootVars, emVoo, produtos, notaVars>>

\* AuthService.login, its failure: "" when the login succeeds
AuthLoginOutcome(email, senha) ==
  LET user == UsuarioFindByEmail(email) IN
  IF user.erro # "" THEN user.erro
  ELSE IF user.user = <<>> THEN ErrLoginInvalido
  ELSE IF ~compareSenha(senha, user.user[1].senha_hash) THEN ErrLoginInvalido
  ELSE ""

\* AuthService.login({email, senha})
AuthLogin(email, senha) ==
  \E erro \in {AuthLoginOutcome(email, senha)} :
  /\ resultado' = [op |-> "auth.login", erro |-> erro]
  /\ retorno' = IF erro # "" THEN RetornoVazio
                ELSE RetornoAuth(UsuarioFindByEmail(email).user[1])
  /\ Atendido
  /\ UNCHANGED <<bootVars, emVoo, produtos, notaVars, usuarioVars, now>>

\* UsuarioService.update: [erro, db, items], the store as the call leaves it
UsuarioUpdateOutcome(id, nome, email) ==
  LET mesmo == [erro |-> "", db |-> usuariosDb, items |-> usuariosItems]
      existente == UsuarioFindByEmail(email.val) IN
  IF ~Falsy(email) /\ existente.erro # "" THEN [mesmo EXCEPT !.erro = existente.erro]
  ELSE IF ~Falsy(email) /\ existente.user # <<>> /\ existente.user[1].id # id
    THEN [mesmo EXCEPT !.erro = ErrEmailEmUso]
  ELSE IF usuariosBackend = "memory"
    THEN [mesmo EXCEPT !.erro = MemoryUsuarioUpdate(id, nome, email).erro,
                       !.items = MemoryUsuarioUpdate(id, nome, email).items]
    ELSE [mesmo EXCEPT !.erro = SqlUsuarioUpdate(id, nome, email).erro,
                       !.db = SqlUsuarioUpdate(id, nome, email).db]

\* UsuarioService.update(id, {nome, email})
UsuarioUpdate(id, nome, email) ==
  \E out \in {UsuarioUpdateOutcome(id, nome, email)} :
  /\ resultado' = [op |-> "usuario.update", erro |-> out.erro]
  /\ usuariosDb' = out.db
  /\ usuariosItems' = out.items
  /\ retorno' = IF out.erro # "" THEN RetornoVazio
                ELSE [data |-> <<toPublic(
                        IF usuariosBackend = "memory"
                          THEN out.items[UsuarioIdx(id)]
                          ELSE UsuarioFromDbRow(out.db[UsuarioIdx(id)]).val[1])>>,
                      token |-> <<>>]
  /\ Atendido
  /\ UNCHANGED <<bootVars, emVoo, produtos, notaVars, usuarioIdSeq, now>>

\* delete(id) of the three user repositories: [ok, db, items].  SQLite answers
\* info.changes > 0, memory whether the length changed, MySQL always true
UsuarioDelete(id) ==
  LET db == Filter(usuariosDb, LAMBDA r : r.id # id)
      items == Filter(usuariosItems, LAMBDA u : u.id # id) IN
  [ok |-> CASE usuariosBackend = "mysql" -> TRUE
            [] usuariosBackend = "sqlite" -> Len(usuariosDb) - Len(db) > 0
            [] OTHER -> Len(items) # Len(usuariosItems),
   db |-> db, items |-> items]

\* UsuarioService.remove(id): answers true whatever the repository says
UsuarioRemove(id) ==
  /\ resultado' = [op |-> "usuario.remove", erro |-> ""]
  /\ usuariosDb' = UsuarioDelete(id).db
  /\ usuariosItems' = UsuarioDelete(id).items
  /\ retorno' = RetornoVazio
  /\ Atendido
  /\ UNCHANGED <<bootVars, emVoo, produtos, notaVars, usuarioIdSeq, now>>

\* findAll of the three user repositories, newest id first: [erro, users]
UsuarioFindAll ==
  IF usuariosBackend = "memory" THEN [erro |-> "", users |-> usuariosItems]
  ELSE LET n == Len(usuariosDb)
           rows == [i \in 1..n |-> UsuarioFromDbRow(usuariosDb[n + 1 - i])]
           ruim == FirstIndex(rows, LAMBDA r : r.erro # "") IN
       IF ruim # 0 THEN [erro |-> rows[ruim].erro, users |-> <<>>]
       ELSE [erro |-> "", users |-> [i \in 1..n |-> rows[i].val[1]]]

\* UsuarioService.list()
UsuarioList ==
  \E models \in {UsuarioFindAll} :
  /\ resultado' = [op |-> "usuario.list", erro |-> models.erro]
  /\ retorno' = [data |-> [i \in 1..Len(models.users) |-> toPublic(models.users[i])],
                  token |-> <<>>]
  /\ Atendido
  /\ UNCHANGED <<bootVars, emVoo, produtos, notaVars, usuarioVars, now>>

\* findById of the three user repositories: [erro, user], user = <<>> for null
UsuarioFindById(id) == UsuarioFindByIdEm(usuariosDb, usuariosItems, id)

\* UsuarioService.get(id)
UsuarioGet(id) ==
  LET m == UsuarioFindById(id)
      erro == IF m.erro # "" THEN m.erro
              ELSE IF m.user = <<>> THEN ErrUsuarioNaoEncontrado ELSE "" IN
  /\ resultado' = [op |-> "usuario.get", erro |-> erro]
  /\ retorno' = IF erro # "" THEN RetornoVazio
                ELSE [data |-> <<toPublic(m.user[1])>>, token |-> <<>>]
  /\ Atendido
  /\ UNCHANGED <<bootVars, emVoo, produtos, notaVars, usuarioVars, now>>

EMAIL1 == <<"a", "@", "x.com">>
EMAIL1Maiusculo == <<"A", "@", "x.com">>
GMAIL1 == <<"a", "b", "@", "gmail.com">>
GMAIL1Pontos == <<"a", ".", "b", "@", "gmail.com">>
EmailInputs == {EMAIL1, EMAIL1Maiusculo, GMAIL1, GMAIL1Pontos, <<"a">>}
NomeInputs == {<<"A", "l">>, <<"A">>}
SenhaInputs == {<<"p">>, <<"q">>}
UsuarioIdInputs == 1..(MaxUsuarioId + 1)

\* Users only: register, login, update and remove on each user backend
NextUsuarios ==
  \/ \E nome \in NomeInputs, email \in EmailInputs, senha \in {<<"p">>, <<>>} :
       AuthRegister(nome, email, senha)
  \/ \E email \in EmailInputs, senha \in SenhaInputs : AuthLogin(email, senha)
  \/ \E id \in UsuarioIdInputs, nome \in {Some(n) : n \in NomeInputs} \cup {NoStr},
        email \in {Some(e) : e \in EmailInputs} \cup {NoStr} :
       UsuarioUpdate(id, nome, email)
  \/ \E id \in UsuarioIdInputs : UsuarioRemove(id)
  \/ UsuarioList
  \/ \E id \in UsuarioIdInputs : UsuarioGet(id)

\* Users only: the invoice backend plays no part
InitUsuarios == Init /\ (usuariosBackend = "mysql" => notasBackend = "sqlite")

SpecUsuarios == InitUsuarios /\ [][NextUsuarios]_vars

----------------------------------------------------------------------------
(* C9, C10: users *)

\* A stored user whose e-mail normalizes, as the Usuario model normalizes, to
\* what this e-mail normalizes to
Registrado(email) ==
  \E i \in 1..Len(UsuariosArmazenados) :
    EmailDoModelo(UsuariosArmazenados[i].email) = EmailDoModelo(email)

\* C9 (as claimed): at most one stored user has a given normalized e-mail, and a
\* register whose e-mail normalizes to a stored one fails with the duplicate
\* failure, on each user backend.
C9_EmailNormalizadoUnico ==
  /\ \A i, j \in 1..Len(UsuariosArmazenados) :
       i # j => EmailDoModelo(UsuariosArmazenados[i].email)
                  # EmailDoModelo(UsuariosArmazenados[j].email)
  /\ \A nome \in NomeInputs, email \in EmailInputs, senha \in SenhaInputs :
       Registrado(email)
         => AuthRegisterOutcome(nome, email, senha).erro = ErrEmailJaCadastrado

\* Some stored user with that normalized e-mail has this password
CredencialConfere(email, senha) ==
  \E i \in 1..Len(UsuariosArmazenados) :
    /\ EmailDoModelo(UsuariosArmazenados[i].email) = EmailDoModelo(email)
    /\ compareSenha(senha, UsuariosArmazenados[i].senha_hash)

\* C10 (as claimed): a login with an e-mail that is not registered and a login
\* with a registered e-mail and a credential that does not match fail with the
\* same failure, and a login changes nothing in the user store.
C10_LoginIndistinguivel ==
  /\ [](\A e1 \in EmailInputs, e2 \in EmailInputs, s1 \in SenhaInputs, s2 \in SenhaInputs :
          (~Registrado(e1) /\ Registrado(e2) /\ ~CredencialConfere(e2, s2))
            => /\ AuthLoginOutcome(e1, s1) = ErrLoginInvalido
               /\ AuthLoginOutcome(e2, s2) = AuthLoginOutcome(e1, s1))
  /\ [][resultado'.op = "auth.login" => UNCHANGED usuarioVars]_vars

----------------------------------------------------------------------------
(* C11: what the user services return *)

CamposPublicos == {"id", "nome", "email", "created_at"}

\* Every user view of the returned value has exactly the public fields, and
\* neither its name nor its e-mail is a stored password hash
VisoesPublicas ==
  \A i \in 1..Len(retorno.data) :
    /\ DOMAIN retorno.data[i] = CamposPublicos
    /\ \A k \in 1..Len(UsuariosArmazenados) :
         /\ retorno.data[i].nome # UsuariosArmazenados[k].senha_hash
         /\ retorno.data[i].email # UsuariosArmazenados[k].senha_hash

\* C11 (as claimed): no value returned by register, login, list, get or update
\* holds the password hash: the user part is the public view and the token
\* payload is exactly {id, email}.
C11_PayloadExato ==
  /\ VisoesPublicas
  /\ \A t \in 1..Len(retorno.token) : DOMAIN retorno.token[t] = {"id", "email"}

\* C11 (amended): the user part is the public view, and the token payload is the
\* {id, email} of the returned user together with the iat and exp that signing
\* adds; no returned value holds the password hash.
C11_SemSenhaHash ==
  /\ VisoesPublicas
  /\ \A t \in 1..Len(retorno.token) :
       /\ DOMAIN retorno.token[t] = {"id", "email", "iat", "exp"}
       /\ retorno.token[t].id = retorno.data[1].id
       /\ retorno.token[t].email = retorno.data[1].email
       /\ retorno.token[t].email
            \notin {UsuariosArmazenados[k].senha_hash : k \in 1..Len(UsuariosArmazenados)}

\* C11 witness: a login has succeeded and returned a user view with a token,
\* two users being stored
C11_Witness ==
  /\ resultado = [op |-> "auth.login", erro |-> ""]
  /\ Len(retorno.data) = 1
  /\ Len(retorno.token) = 1
  /\ Len(UsuariosArmazenados) = 2

----------------------------------------------------------------------------
(* Boot: server.js bootstrap, step by step *)

storeVars == <<produtos, notaVars, usuarioVars, now, resultado, retorno, emVoo,
               pedido>>

\* ensureJsonFile(filePath, defaultContent): the file afterwards, and whether
\* it threw, which it does when the file is absent and cannot be written
ensureJsonFileSempreGrava(arquivo, gravavel, defaultContent) ==
  IF gravavel THEN [arquivo |-> Arquivo(defaultContent), throw |-> FALSE]
  ELSE [arquivo |-> arquivo, throw |-> TRUE]

ensureJsonFile(arquivo, gravavel, defaultContent) ==
  IF arquivo.existe THEN [arquivo |-> arquivo, throw |-> FALSE]
  ELSE IF gravavel THEN [arquivo |-> Arquivo(defaultContent), throw |-> FALSE]
  ELSE [arquivo |-> arquivo, throw |-> TRUE]

\* initSqlite(): the value left in sqliteDb and whether it threw.  The function
\* declares no parameter, so the file opened is SQLITE_FILE whatever is passed
initSqlite(arquivo, falhas) ==
  CASE falhas.sqlite = "open" -> [sqliteDb |-> "null", throw |-> TRUE]
    [] falhas.sqlite = "schema" -> [sqliteDb |-> "SQLITE_FILE", throw |-> TRUE]
    [] OTHER -> [sqliteDb |-> "SQLITE_FILE", throw |-> FALSE]

\* new UsuarioSqliteRepository(db): its constructor runs db.exec at once
UsuarioSqliteRepositoryNew(db) ==
  IF db = "null" THEN "throw" ELSE "UsuarioSqliteRepository"

\* The catch branch of step 3: the user repository when MySQL is out
UsuarioRepoSemFallback(sqliteOk, db) ==
  IF sqliteOk THEN UsuarioSqliteRepositoryNew(db) ELSE "null"

UsuarioRepoSempreMemoria(sqliteOk, db) == "UsuarioMemoryRepository"

UsuarioRepoFallback(sqliteOk, db) ==
  IF sqliteOk THEN UsuarioSqliteRepositoryNew(db) ELSE "UsuarioMemoryRepository"

ProdutoMemoryRepositoryVazio(initial) == <<>>

\* new ProdutoMemoryRepository(initial): items, each entry through the Produto
\* constructor and back to a plain object
ProdutoMemoryRepositoryNew(initial) ==
  [i \in 1..Len(initial) |->
     ProdutoToPlain(Produto(initial[i].id, initial[i].nome, initial[i].preco).val[1])]

\* Step 1: products, configured path, then /tmp, then memory
BootProdutos ==
  /\ boot.pc = "produtos"
  /\ LET f1 == ensureJsonFile(boot.disco.env, ~boot.falhas.json, produtosSeed)
         f2 == ensureJsonFile(boot.disco.tmp, ~boot.falhas.tmpJson, produtosSeed) IN
     IF ~f1.throw
       THEN /\ boot' = [boot EXCEPT !.pc = "sqlite", !.disco.env = f1.arquivo,
                                    !.produtoRepo = "ProdutoJsonRepository"]
            /\ produtos' = f1.arquivo.conteudo
       ELSE IF ~f2.throw
         THEN /\ boot' = [boot EXCEPT !.pc = "sqlite", !.disco.tmp = f2.arquivo,
                                      !.produtosJsonPath = "tmp",
                                      !.produtoRepo = "ProdutoJsonRepository"]
              /\ produtos' = f2.arquivo.conteudo
         ELSE /\ boot' = [boot EXCEPT !.pc = "sqlite", !.produtosJsonPath = "tmp",
                                      !.produtosBackend = "memory",
                                      !.produtoRepo = "ProdutoMemoryRepository"]
              /\ produtos' = ProdutoMemoryRepositoryNew(produtosSeed)
  /\ UNCHANGED <<notasBackend, usuariosBackend, notaVars, usuarioVars, now,
                 resultado, retorno, emVoo, pedido>>

\* Step 2: SQLite, configured path and then a second call meant for /tmp
BootSqlite ==
  /\ boot.pc = "sqlite"
  /\ LET r1 == initSqlite("env", boot.falhas)
         r2 == initSqlite("/tmp/notas.db",
                          [boot.falhas EXCEPT !.sqlite =
                             IF boot.falhas.passageira THEN "" ELSE @]) IN
     boot' = IF ~r1.throw
               THEN [boot EXCEPT !.pc = "usuarios", !.sqliteOk = TRUE,
                                 !.sqlitePathInUse = "(env)",
                                 !.sqliteDb = r1.sqliteDb]
             ELSE IF ~r2.throw
               THEN [boot EXCEPT !.pc = "usuarios", !.sqliteOk = TRUE,
                                 !.sqlitePathInUse = "/tmp/notas.db",
                                 !.sqliteDb = r2.sqliteDb]
             ELSE [boot EXCEPT !.pc = "usuarios", !.sqliteOk = FALSE,
                               !.sqliteDb = r2.sqliteDb]
  /\ UNCHANGED <<notasBackend, usuariosBackend, storeVars>>

\* Step 3: users, MySQL, else SQLite, else memory.  The fallback runs inside
\* the catch block: what it throws leaves bootstrap
BootUsuarios ==
  /\ boot.pc = "usuarios"
  /\ IF ~boot.falhas.mysql
       THEN /\ boot' = [boot EXCEPT !.pc = "notas", !.mysqlConnected = TRUE,
                                    !.usuarioRepo = "UsuarioMySqlRepository"]
            /\ UNCHANGED usuariosBackend
       ELSE LET repo == UsuarioRepoFallback(boot.sqliteOk, boot.sqliteDb) IN
            /\ usuariosBackend' = IF boot.sqliteOk THEN "sqlite" ELSE "memory"
            /\ boot' = IF repo = "throw"
                         THEN [boot EXCEPT !.pc = "exit", !.raised = TRUE]
                         ELSE [boot EXCEPT !.pc = "notas", !.usuarioRepo = repo]
  /\ UNCHANGED <<notasBackend, storeVars>>

\* Step 4: invoices, SQLite when it is up, else memory
BootNotas ==
  /\ boot.pc = "notas"
  /\ IF boot.sqliteOk
       THEN /\ boot' = [boot EXCEPT !.pc = "services",
                                    !.notaRepo = "NotaFiscalSqliteRepository"]
            /\ notasBackend' = "sqlite"
       ELSE /\ boot' = [boot EXCEPT !.pc = "services",
                                    !.notaRepo = "NotaFiscalMemoryRepository"]
            /\ notasBackend' = "memory"
  /\ UNCHANGED <<usuariosBackend, storeVars>>

\* Step 5: the services receive the repositories
BootServices ==
  /\ boot.pc = "services"
  /\ boot' = [boot EXCEPT !.pc = "done",
                          !.services = [usuarios |-> boot.usuarioRepo,
                                        produtos |-> boot.produtoRepo,
                                        notas |-> boot.notaRepo]]
  /\ UNCHANGED <<notasBackend, usuariosBackend, storeVars>>

\* Whether the product store in use accepts writes
ProdutosGravavel ==
  \/ boot.produtosBackend = "memory"
  \/ boot.produtosJsonPath = "env" /\ ~boot.falhas.json
  \/ boot.produtosJsonPath = "tmp" /\ ~boot.falhas.tmpJson

\* The process ends and starts again on the same machine: files stay, memory
\* does not
Reiniciar ==
  /\ boot.pc = "done"
  /\ LET disco == IF boot.produtosBackend = "memory" THEN boot.disco
                  ELSE [boot.disco EXCEPT ![boot.produtosJsonPath] = Arquivo(produtos)] IN
     boot' = [BootInicio(boot.falhas) EXCEPT !.disco = disco]
  /\ produtos' = <<>>
  /\ notasBackend' = "sqlite"
  /\ usuariosBackend' = "mysql"
  /\ notasItems' = <<>>
  /\ usuariosItems' = <<>>
  /\ resultado' = [op |-> "boot", erro |-> ""]
  /\ retorno' = RetornoVazio
  /\ notaIdSeq' = IF notasBackend = "memory" THEN 0 ELSE notaIdSeq
  /\ usuarioIdSeq' = IF usuariosBackend = "memory" THEN 0 ELSE usuarioIdSeq
  /\ UNCHANGED <<notasDb, precosLidos, usuariosDb, now, emVoo, pedido>>

\* A first start: the product file of the configured path is there or not
InitBoot ==
  /\ \E falhas \in Falhas, env \in {ArquivoAusente, Arquivo(produtosSeed)} :
       boot = [BootInicio(falhas) EXCEPT !.disco.env = env]
  /\ notasBackend = "sqlite"
  /\ usuariosBackend = "mysql"
  /\ produtos = <<>>
  /\ notasDb = <<>>
  /\ notasItems = <<>>
  /\ notaIdSeq = 0
  /\ precosLidos = [i \in 1..MaxNotaId |-> {}]
  /\ usuariosDb = <<>>
  /\ usuariosItems = <<>>
  /\ usuarioIdSeq = 0
  /\ now = Clock0
  /\ resultado = [op |-> "boot", erro |-> ""]
  /\ retorno = RetornoVazio
  /\ emVoo = [s \in Slots |-> Ocioso]
  /\ pedido = SemPedido

\* Requests of a running server: product 11 is created and removed, a
\* negative price and a one-letter name are refused, 99 never exists; two
\* users register and user 1 is removed
NextBoot ==
  \/ BootProdutos
  \/ BootSqlite
  \/ BootUsuarios
  \/ BootNotas
  \/ BootServices
  \/ Reiniciar
  \/ /\ boot.pc = "done"
     /\ ProdutosGravavel
     /\ \/ \E body \in {[nome |-> <<"P", "e">>, preco |-> 301],
                        [nome |-> <<"P", "e">>, preco |-> -200],
                        [nome |-> <<" ", "P">>, preco |-> 301]} :
             ProdutoCreate(body.nome, body.preco)
        \/ \E id \in {11, 99}, body \in {[nome |-> NoStr, preco |-> Some(-200)],
                                        [nome |-> Some(<<"O", "x", " ">>), preco |-> NoNum],
                                        [nome |-> Some(<<"x", " ">>), preco |-> Some(101)]} :
             ProdutoUpdate(id, body.nome, body.preco)
        \/ \E id \in {11, 99} : ProdutoRemove(id)
  \/ /\ boot.pc = "done"
     /\ \/ /\ now < Clock0 + MaxUsuarioId
           /\ \E email \in {<<"a", "@", "x.com">>, <<" ", "B", "@", "x.com">>} :
                AuthRegister(<<"A", "l", " ">>, email, <<"p">>)
        \/ UsuarioRemove(1)

SpecBoot == InitBoot /\ [][NextBoot]_vars

----------------------------------------------------------------------------
(* C12: backend resolution *)

RepositoriosDe ==
  [produtos |-> {"ProdutoJsonRepository", "ProdutoMemoryRepository"},
   usuarios |-> {"UsuarioMySqlRepository", "UsuarioSqliteRepository",
                 "UsuarioMemoryRepository"},
   notas |-> {"NotaFiscalSqliteRepository", "NotaFiscalMemoryRepository"}]

----------------------------------------------------------------------------
(* C13: what delete answers *)

\* C13: on every user backend delete(id) answers true exactly when a record
\* with that id was stored before the call and is gone after it, and answers
\* false, leaving the store as it was, when there was none
C13_DeleteVerdadeiroSseExistia ==
  \A id \in UsuarioIdInputs :
    LET out == UsuarioDelete(id)
        existia == UsuarioIdx(id) # 0
        restam == IF usuariosBackend = "memory" THEN out.items ELSE out.db IN
    /\ out.ok <=> (existia /\ \A i \in 1..Len(restam) : restam[i].id # id)
    /\ ~existia => (~out.ok /\ out.db = usuariosDb /\ out.items = usuariosItems)

----------------------------------------------------------------------------
(* C14: ids handed out by create *)

ProdutoIds(lista) == {lista[i].id : i \in 1..Len(lista)}

\* C14, as claimed: a product create never returns the id of a product that
\* an earlier create returned and that was deleted since.  Product 11 is the
\* only product these requests can remove, and only a create can have stored
\* it, so a create that follows its removal must not return 11 again
C14_IdNuncaReusado ==
  [][(/\ resultado = [op |-> "produto.remove", erro |-> ""]
      /\ Len(produtos') > Len(produtos))
     => \A id \in ProdutoIds(produtos') \ ProdutoIds(produtos) :
          id > Len(produtosSeed) + 1]_vars

\* C14, as the code has it: a product create returns an id above every id in
\* the store at that moment, so stored product ids stay pairwise distinct;
\* the in-memory invoice repository numbers from a counter that only grows,
\* so each id it returns is above every id it returned before
C14_IdAcimaDosExistentes ==
  [][
    /\ (Len(produtos') > Len(produtos)) =>
          (/\ Len(produtos') = Len(produtos) + 1
           /\ \A id \in ProdutoIds(produtos) : produtos'[Len(produtos')].id > id
           /\ Cardinality(ProdutoIds(produtos')) = Len(produtos'))
    /\ (notasBackend = "memory") =>
          (/\ notaIdSeq' >= notaIdSeq
           /\ \A i \in 1..Len(notasItems) : notasItems[i].id <= notaIdSeq
           /\ (Len(notasItems') > Len(notasItems)) =>
                (/\ notasItems'[1].id > notaIdSeq
                 /\ notaIdSeq' = notasItems'[1].id))
  ]_vars

\* Product 11 was created, and on the in-memory backend invoice 1 was created
\* and deleted before invoice 2 was created
C14_Witness ==
  /\ notasBackend = "memory"
  /\ ProdutoExiste(produtos, Len(produtosSeed) + 1)
  /\ notaIdSeq = 2
  /\ Len(notasItems) = 1
  /\ notasItems[1].id = 2

----------------------------------------------------------------------------
(* C15: failures and writes *)

\* C15: a user-service call that ends in a failure leaves the user store as
\* it was, on the SQL repositories as on the in-memory one, and afterwards
\* findAll still reads the store
C15_FalhaSemEscrita ==
  [][
    /\ (resultado'.erro # "") => UNCHANGED <<usuariosDb, usuariosItems>>
    /\ UsuarioFindAll.erro = ""
  ]_vars

----------------------------------------------------------------------------
(* C16: what the product store holds *)

ProdutoValido(p) ==
  /\ p.preco >= 0
  /\ ToFixed2(p.preco) = p.preco
  /\ Trim(p.nome) = p.nome
  /\ Len(p.nome) >= NOME_MIN_LEN

\* C16: after any sequence of product create, update and remove calls every
\* stored product has a price >= 0 that equals itself rounded to 2 decimals
\* and a trimmed name of at least 2 characters; a negative price is a
\* validation failure, and a call refused for its price leaves the store as
\* it was
C16_ProdutosValidos ==
  [][
    /\ \A i \in 1..Len(produtos') : ProdutoValido(produtos'[i])
    /\ Produto(0, <<"P", "e">>, -200).erro = ErrPrecoInvalido
    /\ (resultado'.erro = ErrPrecoInvalido) => UNCHANGED produtos
  ]_vars

\* An update of product 11 to a negative price was refused
C16_Witness ==
  /\ resultado = [op |-> "produto.update", erro |-> ErrPrecoInvalido]
  /\ ProdutoExiste(produtos, Len(produtosSeed) + 1)
  /\ boot.pc = "done"

----------------------------------------------------------------------------
(* C17: create, then findById *)

----------------------------------------------------------------------------
(* C18: ids that do not resolve *)

OpsUsuarioPorId == {"usuario.get", "usuario.update", "usuario.remove"}

\* C18: a service call addressed to an id that does not resolve fails with
\* the not-found failure and changes no store.  With no user stored no id
\* resolves, so there every get, update and remove of a user must end so
C18_IdAusenteNaoEncontrado ==
  [][(Len(UsuariosArmazenados) = 0 /\ resultado'.op \in OpsUsuarioPorId)
       => (/\ resultado'.erro = ErrUsuarioNaoEncontrado
           /\ UNCHANGED <<usuariosDb, usuariosItems>>)]_vars

----------------------------------------------------------------------------
(* C19: the status a controller answers *)

\* The catch block of each controller method: one status per route, whatever
\* the service threw
StatusDaFalha(op) ==
  CASE op \in {"produto.list", "nota.list", "usuario.list"} -> 500
    [] op \in {"produto.get", "nota.get", "usuario.get"} -> 404
    [] op \in {"produto.create", "nota.create", "auth.register"} -> 400
    [] op \in {"produto.update", "nota.update", "usuario.update"} -> 400
    [] op \in {"produto.remove", "nota.remove", "usuario.remove"} -> 404
    [] op = "auth.login" -> 401

\* The kind of a failure, by its message
EspecieDaFalha(erro) ==
  CASE erro \in {ErrProdutoNaoEncontrado, ErrNotaNaoEncontrada,
                 ErrUsuarioNaoEncontrado, ErrProdutoItem} -> "not-found"
    [] erro = ErrLoginInvalido -> "authentication"
    [] erro \in {ErrNumeroExistente, ErrEmailJaCadastrado, ErrEmailEmUso} -> "duplicate"
    [] erro \in {ErrSqliteUnique, ErrUsuarioUnique, ErrBindUndefined,
                 ErrEmailNaoString} -> "unexpected"
    [] OTHER -> "validation"

\* The status the failure kinds are to be answered with
StatusDaEspecie(especie) ==
  CASE especie \in {"validation", "duplicate"} -> 400
    [] especie = "not-found" -> 404
    [] especie = "authentication" -> 401
    [] OTHER -> 500

\* C19: whatever service call failed last, the controller answers it with
\* the status of the failure's kind: 400 for validation and duplicate, 404
\* for not-found on every route, 401 for authentication, 500 for the rest
C19_StatusPorEspecie ==
  resultado.erro # "" =>
    StatusDaFalha(resultado.op) = StatusDaEspecie(EspecieDaFalha(resultado.erro))

----------------------------------------------------------------------------
(* C20: the product file across starts *)

Caminhos == {"env", "tmp"}

\* C20: the product-store initialisation at boot destroys nothing.  In the
\* step that runs it, a file that exists keeps its content, a file that had
\* to be created holds the seed, and a file store starts with the content
\* of its file: what was created, updated or deleted before a restart is
\* what the server has after it, however many times it starts
C20_ArquivoPreservado ==
  [][(boot.pc = "produtos" /\ boot'.pc = "sqlite") =>
       /\ \A c \in Caminhos :
            /\ boot.disco[c].existe => boot'.disco[c] = boot.disco[c]
            /\ (~boot.disco[c].existe /\ boot'.disco[c].existe) =>
                 boot'.disco[c].conteudo = produtosSeed
       /\ boot'.produtosBackend = "json" =>
            /\ boot'.disco[boot'.produtosJsonPath].existe
            /\ produtos' = boot'.disco[boot'.produtosJsonPath].conteudo
       /\ boot.disco.env.existe =>
            (boot'.produtosBackend = "json" /\ boot'.produtosJsonPath = "env")]_vars

\* A server that started again on its product file, in which product 11,
\* created before the restart, is still there
C20_Witness ==
  /\ boot.pc = "done"
  /\ boot.produtosBackend = "json"
  /\ ProdutoExiste(boot.disco[boot.produtosJsonPath].conteudo, Len(produtosSeed) + 1)
  /\ ProdutoExiste(produtos, Len(produtosSeed) + 1)
  /\ resultado = [op |-> "boot", erro |-> ""]

----------------------------------------------------------------------------
(* C21: the second SQLite location *)

DepoisDoSqlite == boot.pc \in {"usuarios", "notas", "services", "done"}

\* C21: when the SQLite file of the configured path cannot be opened and
\* /tmp/notas.db can, bootstrap's retry leaves the store available, and the
\* database it holds open is /tmp/notas.db, not the configured file
C21_SqliteSecundario ==
  (DepoisDoSqlite /\ boot.falhas.sqlite # "" /\ ~boot.falhas.tmpDb) =>
    /\ boot.sqliteOk
    /\ boot.sqliteDb = "/tmp/notas.db"

----------------------------------------------------------------------------
(* C22: the chain of product backends *)

\* Whether the product file of a path can be initialised: it is there, or
\* it can be written
CaminhoInicializa(c) ==
  \/ boot.disco[c].existe
  \/ IF c = "env" THEN ~boot.falhas.json ELSE ~boot.falhas.tmpJson

\* C22: the products step of bootstrap takes the first of [file at the
\* configured path, file under /tmp, memory] that initialises.  The /tmp file
\* is touched only when the configured path failed, memory is taken only
\* when both failed, and then it holds exactly the 10 seed products
C22_PrimeiroQueInicializa ==
  [][(boot.pc = "produtos" /\ boot'.pc = "sqlite") =>
       /\ CaminhoInicializa("env") =>
            /\ boot'.produtoRepo = "ProdutoJsonRepository"
            /\ boot'.produtosBackend = "json"
            /\ boot'.produtosJsonPath = "env"
            /\ boot'.disco.tmp = boot.disco.tmp
       /\ (~CaminhoInicializa("env") /\ CaminhoInicializa("tmp")) =>
            /\ boot'.produtoRepo = "ProdutoJsonRepository"
            /\ boot'.produtosBackend = "json"
            /\ boot'.produtosJsonPath = "tmp"
       /\ (~CaminhoInicializa("env") /\ ~CaminhoInicializa("tmp")) =>
            /\ boot'.produtoRepo = "ProdutoMemoryRepository"
            /\ boot'.produtosBackend = "memory"
            /\ produtos' = produtosSeed
            /\ Len(produtos') = 10
            /\ boot'.disco = boot.disco]_vars

\* Both paths failed and the server runs on the seeded memory store
C22_Witness ==
  /\ boot.pc = "sqlite"
  /\ boot.falhas.json /\ boot.falhas.tmpJson
  /\ ~boot.disco.env.existe /\ ~boot.disco.tmp.existe
  /\ boot.produtoRepo = "ProdutoMemoryRepository"
  /\ Len(produtos) = 10

----------------------------------------------------------------------------
(* C23: the user and invoice backends *)

\* C23: once bootstrap is through, users are on MySQL exactly when its
\* initialisation succeeded, else on SQLite exactly when SQLite is up, else
\* in memory; invoices are on SQLite exactly when it is up, else in memory;
\* so users are never on SQLite while invoices are in memory
C23_BackendsDeUsuariosENotas ==
  boot.pc = "done" =>
    /\ boot.mysqlConnected <=> ~boot.falhas.mysql
    /\ boot.usuarioRepo =
         (IF ~boot.falhas.mysql THEN "UsuarioMySqlRepository"
          ELSE IF boot.sqliteOk THEN "UsuarioSqliteRepository"
          ELSE "UsuarioMemoryRepository")
    /\ usuariosBackend =
         (IF ~boot.falhas.mysql THEN "mysql"
          ELSE IF boot.sqliteOk THEN "sqlite" ELSE "memory")
    /\ boot.notaRepo =
         (IF boot.sqliteOk THEN "NotaFiscalSqliteRepository"
          ELSE "NotaFiscalMemoryRepository")
    /\ notasBackend = (IF boot.sqliteOk THEN "sqlite" ELSE "memory")
    /\ ~(usuariosBackend = "sqlite" /\ notasBackend = "memory")
    /\ ~(boot.usuarioRepo = "UsuarioSqliteRepository"
          /\ boot.notaRepo = "NotaFiscalMemoryRepository")

\* MySQL was out and SQLite up: users and invoices both ended on SQLite
C23_Witness ==
  /\ boot.pc = "done"
  /\ boot.falhas.mysql
  /\ boot.sqliteOk
  /\ boot.usuarioRepo = "UsuarioSqliteRepository"
  /\ boot.notaRepo = "NotaFiscalSqliteRepository"
  /\ usuariosBackend = "sqlite"

----------------------------------------------------------------------------
(* Requests in flight: the handlers step by step *)

\* A handler runs without interruption from one await on real I/O to the next.
\* The product file is read with fs.readFile and written with fs.writeFile,
\* which truncates the file when it opens it and then writes the whole list in
\* one call; the invoice repositories are synchronous. A step below is what a
\* handler does between two such points; produtos is the content of the file.
\* A handler that runs in steps leaves its outcome in its slot, not in resultado.

\* The slot once its handler has returned or thrown
Fim(req, erro) == [req EXCEPT !.pc = "done", !.erro = erro, !.lista = <<>>,
                              !.atual = <<>>]

\* A handler starts in slot s
Pedido(op, pc, id, corpo) ==
  [Ocioso EXCEPT !.op = op, !.pc = pc, !.id = id, !.corpo = corpo]

\* The response left the server: the slot takes another request
Liberar(s) ==
  /\ emVoo[s].pc = "done"
  /\ emVoo' = [emVoo EXCEPT ![s] = Ocioso]
  /\ UNCHANGED <<bootVars, pedido, produtos, notaVars, usuarioVars, now, resultado, retorno>>

\* ProdutoService.create and ProdutoJsonRepository.create up to
\* _writeAllPlain: the constructor, the read of the file, novoId, push
PCreateLe(s, nome, preco) ==
  LET model == Produto(0, nome, preco)
      req == Pedido("produto.create", "write", 0, <<>>) IN
  /\ emVoo[s].pc = "idle"
  /\ Len(produtos) < MaxProdutos
  /\ IF model.erro # ""
       THEN /\ emVoo' = [emVoo EXCEPT ![s] = Fim(req, model.erro)]
       ELSE LET novo == ProdutoCriado(produtos, model.val[1]) IN
            /\ emVoo' = [emVoo EXCEPT ![s] =
                 [req EXCEPT !.id = novo.id,
                             !.lista = Append(produtos, ProdutoToPlain(novo))]]
  /\ UNCHANGED <<bootVars, pedido, produtos, notaVars, usuarioVars, now, resultado, retorno>>

\* ProdutoService.update up to repo.update: findById reads the file, the
\* merged product is validated
PUpdateAcha(s, id, nome, preco) ==
  LET req == Pedido("produto.update", "read", id, <<>>) IN
  /\ emVoo[s].pc = "idle"
  /\ IF ~ProdutoExiste(produtos, id)
       THEN /\ emVoo' = [emVoo EXCEPT ![s] = Fim(req, ErrProdutoNaoEncontrado)]
       ELSE LET atual == ProdutoFindById(produtos, id)
                validado == Produto(id, Coalesce(nome, atual.nome),
                                    Coalesce(preco, atual.preco)) IN
            IF validado.erro # ""
              THEN /\ emVoo' = [emVoo EXCEPT ![s] = Fim(req, validado.erro)]
              ELSE /\ emVoo' = [emVoo EXCEPT ![s] =
                        [req EXCEPT !.corpo = <<ProdutoToPlain(validado.val[1])>>]]
  /\ UNCHANGED <<bootVars, pedido, produtos, notaVars, usuarioVars, now, resultado, retorno>>

\* ProdutoJsonRepository.update up to _writeAllPlain: the file is read again;
\* for an id that is not in it the repository returns null and the service
\* calls upd.toPlain() on it
PUpdateLe(s) ==
  LET req == emVoo[s]
      idx == ProdutoIdx(produtos, req.id) IN
  /\ req.op = "produto.update"
  /\ req.pc = "read"
  /\ IF idx = 0
       THEN /\ emVoo' = [emVoo EXCEPT ![s] = Fim(req, ErrNullDeref)]
       ELSE LET atualizado == Produto(req.id, req.corpo[1].nome,
                                      req.corpo[1].preco).val[1] IN
            /\ emVoo' = [emVoo EXCEPT ![s] =
                 [req EXCEPT !.pc = "write",
                             !.lista = [produtos EXCEPT ![idx] = atualizado]]]
  /\ UNCHANGED <<bootVars, pedido, produtos, notaVars, usuarioVars, now, resultado, retorno>>

\* ProdutoService.remove and ProdutoJsonRepository.delete up to _writeAllPlain
PRemoveLe(s, id) ==
  LET req == Pedido("produto.remove", "write", id, <<>>)
      filtrado == Filter(produtos, LAMBDA p : p.id # id)
      mudou == Len(filtrado) # Len(produtos) IN
  /\ emVoo[s].pc = "idle"
  /\ IF mudou
       THEN /\ emVoo' = [emVoo EXCEPT ![s] = [req EXCEPT !.lista = filtrado]]
       ELSE /\ emVoo' = [emVoo EXCEPT ![s] = Fim(req, ErrProdutoNaoEncontrado)]
  /\ UNCHANGED <<bootVars, pedido, produtos, notaVars, usuarioVars, now, resultado, retorno>>

\* Mutant of ArquivoGravado: the writer merges its list into what the file holds
ArquivoGravadoComFusao(arquivo, lista) ==
  lista \o Filter(arquivo, LAMBDA p : ~ProdutoExiste(lista, p.id))

\* Mutant of ArquivoGravado: the writer's list is added after what the file holds
ArquivoGravadoAnexa(arquivo, lista) == arquivo \o lista

\* writeJson(filePath, lista): the file holds the writer's list, whatever it
\* held before
ArquivoGravado(arquivo, lista) == lista

\* fs.writeFile opens the file: it is empty until the list is written
Trunca(s) ==
  /\ emVoo[s].pc = "write"
  /\ produtos' = <<>>
  /\ emVoo' = [emVoo EXCEPT ![s].pc = "writing"]
  /\ UNCHANGED <<bootVars, pedido, notaVars, usuarioVars, now, resultado, retorno>>

\* fs.writeFile completes and the handler returns
Grava(s) ==
  /\ emVoo[s].pc = "writing"
  /\ produtos' = ArquivoGravado(produtos, emVoo[s].lista)
  /\ emVoo' = [emVoo EXCEPT ![s] = Fim(emVoo[s], "")]
  /\ UNCHANGED <<bootVars, pedido, notaVars, usuarioVars, now, resultado, retorno>>

\* How many invoice creations are suspended in _calcularTotal
CriacoesEmVoo ==
  Cardinality({s \in Slots : emVoo[s].op = "nota.create" /\ emVoo[s].pc = "calc"})

\* NotaFiscalService.create up to await _calcularTotal, which waits for the
\* product file
NCreateInicia(s, numero, cliente_nome, itens) ==
  LET req == Pedido("nota.create", "calc", 0,
                    <<[numero |-> numero, cliente_nome |-> cliente_nome,
                       itens |-> itens]>>)
      erro == NFCreatePrefixo(numero, cliente_nome, itens) IN
  /\ emVoo[s].pc = "idle"
  /\ notaIdSeq + CriacoesEmVoo < MaxNotaId
  /\ IF erro # ""
       THEN /\ emVoo' = [emVoo EXCEPT ![s] = Fim(req, erro)]
       ELSE /\ emVoo' = [emVoo EXCEPT ![s] = req]
  /\ UNCHANGED <<bootVars, pedido, produtos, notaVars, usuarioVars, now, resultado, retorno>>

\* NotaFiscalService.create from the product read to its return
NCreateConclui(s) ==
  LET req == emVoo[s] IN
  /\ req.op = "nota.create"
  /\ req.pc = "calc"
  /\ \E out \in {NFCreateResto(req.corpo[1].numero, req.corpo[1].cliente_nome,
                               req.corpo[1].itens)} :
       /\ IF out.erro # ""
            THEN /\ emVoo' = [emVoo EXCEPT ![s] = Fim(req, out.erro)]
                 /\ UNCHANGED <<notaVars, now>>
            ELSE /\ emVoo' = [emVoo EXCEPT ![s] =
                      Fim([req EXCEPT !.id = notaIdSeq + 1], "")]
                 /\ notaIdSeq' = notaIdSeq + 1
                 /\ now' = now + 1
                 /\ precosLidos' = [precosLidos EXCEPT ![notaIdSeq + 1] = out.lidos]
                 /\ IF notasBackend = "sqlite"
                      THEN /\ notasDb' = SqliteNotaInsert(out.model[1])
                           /\ UNCHANGED notasItems
                      ELSE /\ notasItems' = MemoryNotaCreate(out.model[1])
                           /\ UNCHANGED notasDb
  /\ UNCHANGED <<bootVars, pedido, produtos, usuarioVars, resultado, retorno>>

\* NotaFiscalService.update up to await _calcularTotal
NUpdateInicia(s, id, numero, cliente_nome, itens) ==
  LET req == Pedido("nota.update", "calc", id,
                    <<[numero |-> numero, cliente_nome |-> cliente_nome,
                       itens |-> itens]>>)
      erro == NFUpdatePrefixo(id, numero) IN
  /\ emVoo[s].pc = "idle"
  /\ IF erro # ""
       THEN /\ emVoo' = [emVoo EXCEPT ![s] = Fim(req, erro)]
       ELSE /\ emVoo' = [emVoo EXCEPT ![s] = [req EXCEPT !.atual = <<NotaFindById(id)>>]]
  /\ UNCHANGED <<bootVars, pedido, produtos, notaVars, usuarioVars, now, resultado, retorno>>

\* NotaFiscalService.update from the product read to its return
NUpdateConclui(s) ==
  LET req == emVoo[s] IN
  /\ req.op = "nota.update"
  /\ req.pc = "calc"
  /\ \E out \in {NFUpdateResto(req.id, req.atual[1], req.corpo[1].numero,
                               req.corpo[1].cliente_nome, req.corpo[1].itens)} :
       /\ emVoo' = [emVoo EXCEPT ![s] = Fim(req, out.erro)]
       /\ IF out.erro # ""
            THEN UNCHANGED notaVars
            ELSE /\ precosLidos' = [precosLidos EXCEPT ![req.id] = out.lidos]
                 /\ UNCHANGED notaIdSeq
                 /\ IF notasBackend = "sqlite"
                      THEN /\ notasDb' = SqliteNotaUpdate(req.id, out.model[1])
                           /\ UNCHANGED notasItems
                      ELSE /\ notasItems' = MemoryNotaUpdate(req.id, out.model[1])
                           /\ UNCHANGED notasDb
  /\ UNCHANGED <<bootVars, pedido, produtos, usuarioVars, now, resultado, retorno>>

\* One-item invoices: _calcularTotal waits for the product file once
ItensUm == <<[productId |-> 1, qtd |-> 2]>>

\* Requests in flight against the product file and the invoice store: two
\* clients create, reprice and remove product 11, create an invoice with the
\* same number, rename invoice 1 and remove it
NextConcorrente ==
  \/ \E s \in Slots :
       \/ PCreateLe(s, <<"P", "e">>, 301)
       \/ PUpdateAcha(s, 11, NoStr, Some(101))
       \/ PUpdateLe(s)
       \/ PRemoveLe(s, 11)
       \/ Trunca(s)
       \/ Grava(s)
       \/ NCreateInicia(s, Some(NUM1), Some(CLIENTE), Some(ItensUm))
       \/ NCreateConclui(s)
       \/ NUpdateInicia(s, 1, NoStr, Some(<<"B", "o">>), NoSeq)
       \/ NUpdateConclui(s)
       \/ Liberar(s)
  \/ NFRemove(1)

SpecConcorrente == InitNotas /\ [][NextConcorrente]_vars

----------------------------------------------------------------------------
(* C24 *)

\* The request in slot s returned op's value without a failure
Sucesso(s, op) == emVoo[s].op = op /\ emVoo[s].pc = "done" /\ emVoo[s].erro = ""

\* C24: product writes on the file-backed store are not serialized: a write
\* that completes leaves in the file exactly the list its writer built from
\* its own earlier read, whatever was written in between, and both calls return
\* success; the witness is an interleaving where the other call's change is lost
C24_UltimoEscritorVence ==
  [][
    \A s \in Slots :
      (emVoo[s].pc = "writing" /\ emVoo'[s].pc = "done") =>
        /\ produtos' = emVoo[s].lista
        /\ emVoo'[s].erro = ""
  ]_vars

\* An update and a remove of product 11 overlapped and both returned success:
\* the file holds product 11 at the update's price, the remove is lost. With
\* both slots still holding their responses nobody else can have put it back.
C24_Witness ==
  \E s, t \in Slots :
    /\ Sucesso(s, "produto.update")
    /\ Sucesso(t, "produto.remove")
    /\ emVoo[s].id = 11
    /\ emVoo[t].id = 11
    /\ ProdutoExiste(produtos, 11)
    /\ ProdutoFindById(produtos, 11).preco = ToFixed2(101)

----------------------------------------------------------------------------
(* C25 *)

\* C25: when two invoice creations with the same number are interleaved, at
\* most one of them persists: the store never holds two invoices with one
\* number, on either invoice backend
C25_NumeroUnicoSobConcorrencia ==
  \A i, j \in 1..Len(NotasArmazenadas) :
    (NotasArmazenadas[i].numero = NotasArmazenadas[j].numero) => i = j

----------------------------------------------------------------------------
(* C26 *)

\* C26: under any interleaving of an update with a concurrent remove of the
\* same id, the update succeeds with the addressed id or fails with the
\* not-found failure, never with another kind of failure
C26_UpdateSucessoOuNaoEncontrado ==
  \A s \in Slots :
    (emVoo[s].pc = "done" /\ emVoo[s].op \in {"nota.update", "produto.update"}) =>
      emVoo[s].erro \in {"", ErrNotaNaoEncontrada, ErrProdutoNaoEncontrado}

----------------------------------------------------------------------------
(* C27 *)

\* No two entries of a product list share an id
IdsDistintos(lista) ==
  \A i, j \in 1..Len(lista) : (lista[i].id = lista[j].id) => i = j

\* C27: in every reachable state of the product store, states reached by
\* interleaved create, update and delete calls included, no two stored
\* products share an id
C27_IdsDeProdutoDistintos ==
  /\ IdsDistintos(produtos)
  /\ \A s \in Slots : IdsDistintos(emVoo[s].lista)

\* Two creations overlapped, each was told id 11 and returned success, and
\* the file holds one product 11
C27_Witness ==
  /\ \A s \in Slots : Sucesso(s, "produto.create") /\ emVoo[s].id = 11
  /\ Len(produtos) = 11
  /\ ProdutoExiste(produtos, 11)

----------------------------------------------------------------------------
(* Routes and authMiddleware *)

\* str.split(sep) for a one-character separator
RECURSIVE Split(_, _)
Split(str, sep) ==
  LET k == FirstIndex(str, LAMBDA c : c = sep) IN
  IF k = 0 THEN <<str>>
  ELSE <<SubSeq(str, 1, k - 1)>> \o Split(SubSeq(str, k + 1, Len(str)), sep)

Bearer == <<"B", "e", "a", "r", "e", "r">>

JWT_SECRET == "JWT_SECRET"

\* Tokens a client may send, each written as one symbol of the header: what
\* they were signed with, the algorithm in their header, their exp in seconds
Tokens ==
  [t \in {"jwt.ok", "jwt.expirado", "jwt.outro", "jwt.none"} |->
     [segredo |-> IF t = "jwt.outro" THEN "outro" ELSE JWT_SECRET,
      alg |-> IF t = "jwt.none" THEN "none" ELSE "HS256",
      exp |-> IF t = "jwt.expirado" THEN 0 ELSE 2 * 60 * 60]]

\* jwt.verify(token, JWT_SECRET, {algorithms: ["HS256"]}) on one symbol
JwtVerify(t) ==
  /\ t \in DOMAIN Tokens
  /\ Tokens[t].alg = "HS256"
  /\ Tokens[t].segredo = JWT_SECRET
  /\ now \div 1000 < Tokens[t].exp

\* verifyJwt(token): whether it returns the payload (TRUE) or throws
verifyJwt(token) == Len(token) = 1 /\ JwtVerify(token[1])

\* Mutant of authMiddleware: the scheme is not compared
authMiddlewareSemEsquema(authorization) ==
  LET auth == IF Falsy(authorization) THEN <<>> ELSE authorization.val
      parts == Split(auth, " ") IN
  IF Len(parts) # 2
    THEN [next |-> FALSE, status |-> 401, error |-> "Token ausente"]
  ELSE IF ~verifyJwt(parts[2])
    THEN [next |-> FALSE, status |-> 401, error |-> "Token invalido/expirado"]
  ELSE [next |-> TRUE, status |-> 0, error |-> ""]

\* authMiddleware(req, res, next) for req.headers.authorization
authMiddleware(authorization) ==
  LET auth == IF Falsy(authorization) THEN <<>> ELSE authorization.val
      parts == Split(auth, " ") IN
  IF Len(parts) # 2 \/ parts[1] # Bearer
    THEN [next |-> FALSE, status |-> 401, error |-> "Token ausente"]
  ELSE IF ~verifyJwt(parts[2])
    THEN [next |-> FALSE, status |-> 401, error |-> "Token invalido/expirado"]
  ELSE [next |-> TRUE, status |-> 0, error |-> ""]

Rotas == {"/api/auth", "/api/usuarios", "/api/produtos", "/api/notas"}

\* app.use(path, ...): the middlewares mounted before the router of a path
Middlewares(rota) == IF rota = "/api/auth" THEN {} ELSE {"authMiddleware"}

\* A request arrives and goes through the middlewares of its route: a 401
\* from authMiddleware ends it, next() hands it to the router
Recebe(rota, authorization) ==
  LET r == authMiddleware(authorization)
      req == [rota |-> rota, authorization |-> authorization, fase |-> "next"] IN
  /\ pedido.fase # "next"
  /\ IF "authMiddleware" \in Middlewares(rota) /\ ~r.next
       THEN /\ pedido' = [req EXCEPT !.fase = "401"]
            /\ resultado' = [op |-> "authMiddleware", erro |-> r.error]
       ELSE /\ pedido' = req
            /\ UNCHANGED resultado
  /\ UNCHANGED <<bootVars, emVoo, produtos, notaVars, usuarioVars, now, retorno>>

\* The router of rota has the request
NaRota(rota) == pedido.fase = "next" /\ pedido.rota = rota

\* Authorization headers: none, empty, the right form with each token, and
\* forms that differ from it by the scheme, its case, the spacing, a missing
\* or a second token
Cabecalhos ==
  {NoStr, Some(<<>>)} \cup
  {Some(Bearer \o <<" ", t>>) : t \in DOMAIN Tokens \cup {"x"}} \cup
  {Some(Bearer \o <<" ", " ", "jwt.ok">>),
   Some(<<" ">> \o Bearer \o <<" ", "jwt.ok">>),
   Some(Bearer \o <<" ", "jwt.ok", " ">>),
   Some(Bearer \o <<" ", "jwt.ok", " ", "jwt.ok">>),
   Some(<<"b", "e", "a", "r", "e", "r", " ", "jwt.ok">>),
   Some(<<"B", "a", "s", "i", "c", " ", "jwt.ok">>),
   Some(Bearer \o <<"jwt.ok">>),
   Some(<<"jwt.ok">>),
   Some(Bearer),
   Some(Bearer \o <<" ">>)}

\* Requests through the routes: each route with each header, then one
\* writing and one other handler per router
NextRotas ==
  \/ \E rota \in Rotas, authorization \in Cabecalhos : Recebe(rota, authorization)
  \/ /\ NaRota("/api/auth")
     /\ \/ /\ now < Clock0 + MaxUsuarioId
           /\ AuthRegister(<<"A", "l">>, <<"a", "@", "x.com">>, <<"p">>)
        \/ AuthLogin(<<"a", "@", "x.com">>, <<"p">>)
  \/ /\ NaRota("/api/usuarios")
     /\ \/ UsuarioList
        \/ UsuarioRemove(1)
  \/ /\ NaRota("/api/produtos")
     /\ \/ ProdutoCreate(<<"P", "e">>, 301)
        \/ ProdutoRemove(11)
  \/ /\ NaRota("/api/notas")
     /\ \/ NFCreate(Some(NUM1), Some(CLIENTE), Some(ItensUm))
        \/ NFRemove(1)

SpecRotas == Init /\ [][NextRotas]_vars

----------------------------------------------------------------------------
(* C28 *)

Protegidas == {"/api/usuarios", "/api/produtos", "/api/notas"}

\* The header is exactly "Bearer <token>" with a token that verifies
BearerVerificado(authorization) ==
  /\ authorization.def
  /\ \E t \in DOMAIN Tokens :
       /\ authorization.val = Bearer \o <<" ">> \o <<t>>
       /\ JwtVerify(t)

\* C28: a request to a protected route reaches its service only after
\* authMiddleware verified a token from a header of the exact form
\* "Bearer <token>"; with a missing header, another scheme or a token that
\* fails verification the response is 401 and no service or repository
\* operation runs; /api/auth is reachable without a token
C28_RotasProtegidas ==
  [][
    /\ (pedido.fase = "next" /\ pedido'.fase = "atendido"
        /\ pedido.rota \in Protegidas)
         => BearerVerificado(pedido.authorization)
    /\ (pedido'.fase \in {"next", "401"}
        /\ pedido'.rota \in Protegidas
        /\ ~BearerVerificado(pedido'.authorization))
         => /\ pedido'.fase = "401"
            /\ resultado'.op = "authMiddleware"
            /\ UNCHANGED <<produtos, notaVars, usuarioVars, retorno>>
    /\ (pedido.fase = "401") => pedido'.fase # "atendido"
    /\ (pedido'.fase \in {"next", "401"} /\ pedido'.rota = "/api/auth")
         => pedido'.fase = "next"
  ]_vars

\* A protected route answered a verified request, a service having run
C28_Witness ==
  /\ pedido.fase = "atendido"
  /\ pedido.rota = "/api/produtos"
  /\ BearerVerificado(pedido.authorization)
  /\ resultado = [op |-> "produto.create", erro |-> ""]
  /\ Len(produtos) = 11

----------------------------------------------------------------------------
(* C29 *)

\* Between two versions of a user store, only the nome and email of the record
\* with this id differ
SoNomeEEmailDe(id, antes, depois) ==
  /\ Len(depois) = Len(antes)
  /\ \A i \in 1..Len(antes) :
       /\ depois[i].id = antes[i].id
       /\ depois[i].senha_hash = antes[i].senha_hash
       /\ depois[i].created_at = antes[i].created_at
       /\ antes[i].id # id => depois[i] = antes[i]

\* C29: a successful UsuarioService.update changes only the name and/or the
\* e-mail of the addressed user: that user's id, password hash and
\* created_at, and every other user's record, are unchanged, on each user
\* backend
C29_UpdateSoNomeEEmail ==
  [][
    (resultado'.op = "usuario.update" /\ resultado'.erro = "") =>
      /\ SoNomeEEmailDe(retorno'.data[1].id, usuariosDb, usuariosDb')
      /\ SoNomeEEmailDe(retorno'.data[1].id, usuariosItems, usuariosItems')
      /\ usuarioIdSeq' = usuarioIdSeq
  ]_vars

\* Two users are stored and the last call, an update of user 1, succeeded and
\* left it with the Gmail address while user 2 has the other one
C29_Witness ==
  /\ resultado = [op |-> "usuario.update", erro |-> ""]
  /\ Len(UsuariosArmazenados) = 2
  /\ retorno.data[1].id = 1
  /\ UsuariosArmazenados[1].id = 1
  /\ UsuariosArmazenados[1].email = GMAIL1
  /\ UsuariosArmazenados[2].email = EMAIL1

----------------------------------------------------------------------------
(* C30 *)

\* The JSON the home route answers with: its backends and status fields
Home ==
  [backends |->
     [usuarios |-> usuariosBackend,
      notas |-> notasBackend,
      produtos |-> IF boot.produtosBackend = "json"
                     THEN <<"json:", boot.produtosJsonPath>> ELSE <<"memory">>,
      sqlite_file |-> IF boot.sqliteOk THEN boot.sqlitePathInUse ELSE "null"],
   status |->
     [mysql_connected |-> boot.mysqlConnected,
      sqlite_ok |-> boot.sqliteOk,
      falling_back_to_memory |-> \/ usuariosBackend = "memory"
                                 \/ notasBackend = "memory"
                                 \/ boot.produtosBackend = "memory"]]

\* The identifier that stands for a repository class
IdentificadorDe(classe) ==
  CASE classe = "UsuarioMySqlRepository" -> "mysql"
    [] classe \in {"UsuarioSqliteRepository", "NotaFiscalSqliteRepository"} -> "sqlite"
    [] classe = "ProdutoJsonRepository" -> "json:"
    [] OTHER -> "memory"

\* The name the home route uses for a database file
NomeDoArquivo(sqliteDb) == IF sqliteDb = "SQLITE_FILE" THEN "(env)" ELSE sqliteDb

\* C30: the backend identifiers the home endpoint reports match the
\* repositories constructed at boot: backends.usuarios, notas and produtos
\* name the class of the injected repository, sqlite_file names the database
\* file actually opened, and falling_back_to_memory is true iff at least one
\* aggregate uses an in-memory repository
C30_HomeConfereComOBoot ==
  boot.pc = "done" =>
    /\ Home.backends.usuarios = IdentificadorDe(boot.services.usuarios)
    /\ Home.backends.notas = IdentificadorDe(boot.services.notas)
    /\ Home.backends.produtos[1] = IdentificadorDe(boot.services.produtos)
    /\ boot.sqliteOk => Home.backends.sqlite_file = NomeDoArquivo(boot.sqliteDb)
    /\ ~boot.sqliteOk => Home.backends.sqlite_file = "null"
    /\ Home.status.falling_back_to_memory <=>
         \E a \in {"usuarios", "produtos", "notas"} :
           IdentificadorDe(boot.services[a]) = "memory"

============================================================================
